---- MODULE Spec2Model ----
(***************************************************************************)
(* A model of parlaylib's bulk-sequence kernels                            *)
(*   include/parlay/internal/sequence_ops.h  (reduce, scan, pack, filter,  *)
(*                                            split_two, split_three)      *)
(*   include/parlay/internal/quicksort.h     (three-way quicksort)         *)
(*                                                                         *)
(* Storage is modelled as a memory: a function from buffer names to        *)
(* sequences of cells; a cell holds a value and the number of times it has *)
(* been assigned.  A slice is a window [buf, s, e) on a buffer, so two     *)
(* slices of the same buffer really alias.  Offsets are zero-based as in   *)
(* the source; cell k of a buffer is element k+1 of its TLA+ sequence.     *)
(*                                                                         *)
(* The block size of the tiler is an argument (bs) of every kernel; the    *)
(* program always passes _block_size.  The scenarios draw it from          *)
(* BlockSizes so that inputs of a few elements span several blocks.        *)
(***************************************************************************)
EXTENDS Integers, Sequences, FiniteSets, TLC

VARIABLES
  mem,     \* the buffers the running kernel sees: In, Out, Fl, Sums
  mon,     \* the monoid passed to reduce / scan
  bsz,     \* the block size the tiler is run with
  fl,      \* the flags word passed to the kernel
  outb,    \* the buffer the Out argument windows ("In" when called in place)
  pc,      \* control state of the running kernel
  ret,     \* value returned by the kernel
  task,    \* per-block task state inside a parallel region
  In0,     \* the contents of In (of A, for quicksort) when the call was made
  sortArg, \* quicksort: the comparison and the iterator type it is called with
  A,       \* quicksort: the array being sorted
  stack,   \* quicksort: pending calls, innermost first
  reg      \* quicksort: locals of the running split3

vars == <<mem, mon, bsz, fl, outb, pc, ret, task, In0, sortArg, A, stack, reg>>

\* the arguments of the call, fixed once it is made
argVars == <<mon, bsz, fl, outb, In0, sortArg>>

sortVars == <<A, stack, reg>>

-----------------------------------------------------------------------------
(* Bounds of the scenarios *)

MaxLen == 5

MaxReduceLen == 22

-----------------------------------------------------------------------------
(* Program constants *)

_log_block_size == 10

_block_size == 2 ^ _log_block_size

no_flag == 0

fl_sequential == 1

fl_scan_inclusive == 2 ^ 4

HasFlag(f, bit) == (f \div bit) % 2 = 1

BlockSizes == {1, 2, _block_size}

-----------------------------------------------------------------------------
(* Memory, cells and slices *)

Cell(v, w) == [v |-> v, w |-> w]

\* sequence<T>(n): n default-constructed elements, none assigned yet
NewSeq(n, d) == [i \in 1..n |-> Cell(d, 0)]

\* sequence<T>::uninitialized(n): raw storage; -1 stands for "no value"
Uninitialized(n) == [i \in 1..n |-> Cell(-1, 0)]

\* a buffer holding the values of s, each written once by its constructor
FromValues(s) == [i \in 1..Len(s) |-> Cell(s[i], 1)]

Values(buf) == [i \in 1..Len(buf) |-> buf[i].v]

Writes(buf) == [i \in 1..Len(buf) |-> buf[i].w]

\* a sequence or slice is a window [s, e) on a buffer; `delayed` tells a
\* delayed_sequence, whose buffer tabulates its function f from index 0
make_slice(m, b) == [buf |-> b, s |-> 0, e |-> Len(m[b]), delayed |-> FALSE]

\* make_slice(A).cut(s, e): a slice over the iterators begin() + s, begin() + e
cut(sl, s, e) ==
  [buf |-> sl.buf, s |-> sl.s + s, e |-> sl.s + e, delayed |-> FALSE]

\* delayed_sequence<T>(first, last, f), f tabulated in buffer b
delayed_sequence(b, first, last) ==
  [buf |-> b, s |-> first, e |-> last, delayed |-> TRUE]

size(sl) == sl.e - sl.s

\* slices are equal when they window the same storage
slice_eq(a, b) == a.buf = b.buf /\ a.s = b.s /\ a.e = b.e

\* a read through the bare subscript A[i] of the container a kernel is
\* given: a sequence or slice reads begin()[i], a delayed_sequence f(i)
subscript(sl, i) == IF sl.delayed THEN i ELSE sl.s + i

Read(m, sl, i) == m[sl.buf][subscript(sl, i) + 1].v

\* an assignment through a slice; touching a cell outside the buffer is an
\* evaluation error, never a silent no-op
Write(m, sl, i, v) ==
  LET k == sl.s + i + 1
      old == m[sl.buf][k]
  IN  IF old.w >= 0
        THEN [m EXCEPT ![sl.buf] = [@ EXCEPT ![k] = Cell(v, old.w + 1)]]
        ELSE m

-----------------------------------------------------------------------------
(* Monoids: (f, identity).  addm and maxm are the library's; concat is a   *)
(* user monoid that is associative but not commutative.                    *)

Max(a, b) == IF a > b THEN a ELSE b

Min(a, b) == IF a < b THEN a ELSE b

addm == [name |-> "addm", identity |-> 0]

maxm == [name |-> "maxm", identity |-> -1000000]

concat == [name |-> "concat", identity |-> <<>>]

Monoids == {addm, maxm, concat}

m_f(m, a, b) ==
  CASE m.name = "addm" -> a + b
    [] m.name = "maxm" -> Max(a, b)
    [] m.name = "concat" -> a \o b

\* T(): the value-initialised element of the monoid's carrier
DefaultT(m) == IF m.name = "concat" THEN <<>> ELSE 0

\* the element of the carrier that an input code c stands for
Elem(m, c) == IF m.name = "concat" THEN (IF c = 0 THEN <<>> ELSE <<c>>) ELSE c

-----------------------------------------------------------------------------
(* Block tiler *)

\* a block count that adds a block when block_size divides n
num_blocks_one_more(n, block_size) ==
  IF n = 0 THEN 0 ELSE 1 + (n \div block_size)

num_blocks(n, block_size) ==
  IF n = 0 THEN 0 ELSE 1 + ((n - 1) \div block_size)

\* a block start one element too early: consecutive blocks share an element
BlockStartOverlapping(i, block_size) == Max(i * block_size - 1, 0)

\* the (s, e) that sliced_for hands to block i
BlockStart(i, block_size) == i * block_size

\* a block end one element too far: consecutive blocks share an element
BlockEndOverlapping(i, n, block_size) ==
  Min(BlockStart(i, block_size) + block_size + 1, n)

BlockEnd(i, n, block_size) == Min(BlockStart(i, block_size) + block_size, n)

\* (size_t) ceil(sqrt(n))
CeilSqrt(n) == CHOOSE k \in 0..n : k * k >= n /\ (k = 0 \/ (k - 1) * (k - 1) < n)

-----------------------------------------------------------------------------
(* reduce *)

\* TRUE.  A loop evaluates Computed(v) on the value v that the iteration
\* before left, so that the iterations are computed in the order of the
\* code.
Computed(v) == v = v

RECURSIVE reduce_serial_from(_, _, _, _, _)
\* the loop of reduce_serial from index j on, r being the running value
reduce_serial_from(m, sl, mo, j, r) ==
  IF Computed(r) /\ j < size(sl)
    THEN reduce_serial_from(m, sl, mo, j + 1, m_f(mo, r, Read(m, sl, j)))
    ELSE r

reduce_serial_skip(m, sl, mo) == reduce_serial_from(m, sl, mo, 2, Read(m, sl, 0))

reduce_serial(m, sl, mo) == reduce_serial_from(m, sl, mo, 1, Read(m, sl, 0))

reduce_block_size(n, bs) == Max(bs, 4 * CeilSqrt(n))

\* Sums after the sliced_for of reduce / scan_ : one partial result per block
BlockSums(m, sl, mo, block_size) ==
  [i \in 1..num_blocks(size(sl), block_size) |->
     reduce_serial(m, cut(sl, BlockStart(i - 1, block_size),
                          BlockEnd(i - 1, size(sl), block_size)), mo)]

RECURSIVE reduce(_, _, _, _, _)
reduce(m, sl, mo, f, bs) ==
  LET n == size(sl)
      block_size == reduce_block_size(n, bs)
      l == num_blocks(n, block_size)
  IN  IF l = 0 THEN mo.identity
      ELSE IF l = 1 \/ HasFlag(f, fl_sequential) THEN reduce_serial(m, sl, mo)
      ELSE LET sm == [Sums |-> FromValues(BlockSums(m, sl, mo, block_size))]
           IN  reduce(sm, make_slice(sm, "Sums"), mo, no_flag, bs)

-----------------------------------------------------------------------------
(* scan *)

\* a loop body of scan_serial that stores Out[i] before it loads In[i]
scan_serial_store_first(m, In, Out, mo, r, i, inclusive) ==
  IF inclusive
    THEN LET r1 == m_f(mo, r, Read(m, In, i))
         IN  [m |-> Write(m, Out, i, r1), r |-> r1]
    ELSE LET m1 == Write(m, Out, i, r)
         IN  [m |-> m1, r |-> m_f(mo, r, Read(m1, In, i))]

\* one iteration of the loop of scan_serial at index i, r being the running
\* value: the memory and the running value after it
scan_serial_step(m, In, Out, mo, r, i, inclusive) ==
  IF inclusive
    THEN LET r1 == m_f(mo, r, Read(m, In, i))
         IN  [m |-> Write(m, Out, i, r1), r |-> r1]
    ELSE LET t == Read(m, In, i)
         IN  [m |-> Write(m, Out, i, r), r |-> m_f(mo, r, t)]

RECURSIVE scan_serial_from(_, _, _, _, _, _, _)
scan_serial_from(m, In, Out, mo, r, i, inclusive) ==
  IF Computed(m) /\ Computed(r) /\ i < size(In)
    THEN LET st == scan_serial_step(m, In, Out, mo, r, i, inclusive)
         IN  scan_serial_from(st.m, In, Out, mo, st.r, i + 1, inclusive)
    ELSE [m |-> m, r |-> r]

\* a scan_serial that never takes the inclusive branch
scan_serial_exclusive(m, In, Out, mo, offset, f) ==
  scan_serial_from(m, In, Out, mo, offset, 0, FALSE)

scan_serial(m, In, Out, mo, offset, f) ==
  scan_serial_from(m, In, Out, mo, offset, 0, HasFlag(f, fl_scan_inclusive))

RECURSIVE scan_down_sweep_no_offset(_, _, _, _, _, _, _, _)
\* a second sliced_for of scan_ whose blocks all start from the identity
scan_down_sweep_no_offset(m, In, Out, mo, f, bs, sums, i) ==
  LET n == size(In)
      s == BlockStart(i, bs)
      e == BlockEnd(i, n, bs)
  IN  IF Computed(m) /\ i < num_blocks(n, bs)
        THEN scan_down_sweep_no_offset(
               scan_serial(m, cut(In, s, e), cut(Out, s, e), mo,
                           mo.identity, f).m,
               In, Out, mo, f, bs, sums, i + 1)
        ELSE m

RECURSIVE scan_down_sweep(_, _, _, _, _, _, _, _)
\* the second sliced_for of scan_, blocks i, i+1, ... l-1
scan_down_sweep(m, In, Out, mo, f, bs, sums, i) ==
  LET n == size(In)
      s == BlockStart(i, bs)
      e == BlockEnd(i, n, bs)
  IN  IF Computed(m) /\ i < num_blocks(n, bs)
        THEN scan_down_sweep(
               scan_serial(m, cut(In, s, e), cut(Out, s, e), mo,
                           sums[i + 1], f).m,
               In, Out, mo, f, bs, sums, i + 1)
        ELSE m

\* scan_: the memory after the call and the total it returns
scan_(m, In, Out, mo, f, bs) ==
  LET n == size(In)
      l == num_blocks(n, bs)
  IN  IF l <= 2 \/ HasFlag(f, fl_sequential)
        THEN scan_serial(m, In, Out, mo, mo.identity, f)
        ELSE LET sm == [Sums |-> FromValues(BlockSums(m, In, mo, bs))]
                 S == make_slice(sm, "Sums")
                 sc == scan_serial(sm, S, S, mo, mo.identity, no_flag)
             IN  [m |-> scan_down_sweep(m, In, Out, mo, f, bs,
                                        Values(sc.m.Sums), 0),
                  r |-> sc.r]

scan_inplace(m, In, mo, f, bs) == scan_(m, In, In, mo, f, bs)

-----------------------------------------------------------------------------
(* pack, filter, split_two, split_three.  Flags are stored as integers: a  *)
(* bool is 0 or 1, `if (Fl[i])` tests for non-zero, `Fl[i] == false` for 0 *)

\* the conversion bool -> size_t
BoolToInt(b) == IF b THEN 1 ELSE 0

\* memory m with one more, freshly allocated, buffer
WithBuffer(m, name, buf) ==
  [b \in (DOMAIN m) \cup {name} |-> IF b = name THEN buf ELSE m[b]]

RECURSIVE sum_bools_from(_, _, _)
sum_bools_from(m, I, j) ==
  IF j < size(I) THEN Read(m, I, j) + sum_bools_from(m, I, j + 1) ELSE 0

\* size_t r = 0; for (j...) r += I[j];
sum_bools_serial(m, I) == sum_bools_from(m, I, 0)

RECURSIVE pack_serial_at_from(_, _, _, _, _, _)
pack_serial_at_from(m, In, Fl, Out, i, k) ==
  IF Computed(m) /\ i < size(In)
    THEN IF Read(m, Fl, i) # 0
           THEN pack_serial_at_from(Write(m, Out, k, Read(m, In, i)),
                                    In, Fl, Out, i + 1, k + 1)
           ELSE pack_serial_at_from(m, In, Fl, Out, i + 1, k)
    ELSE [m |-> m, k |-> k]

RECURSIVE pack_serial_at_same_index_from(_, _, _, _, _, _)
pack_serial_at_same_index_from(m, In, Fl, Out, i, k) ==
  IF Computed(m) /\ i < size(In)
    THEN IF Read(m, Fl, i) # 0
           THEN pack_serial_at_same_index_from(
                  Write(m, Out, k, Read(m, In, k)), In, Fl, Out, i + 1, k + 1)
           ELSE pack_serial_at_same_index_from(m, In, Fl, Out, i + 1, k)
    ELSE [m |-> m, k |-> k]

\* a pack_serial_at that copies In[k] where it should copy In[i]
pack_serial_at_same_index(m, In, Fl, Out) ==
  pack_serial_at_same_index_from(m, In, Fl, Out, 0, 0)

\* pack_serial_at: the memory after the call and the count it returns
pack_serial_at(m, In, Fl, Out) == pack_serial_at_from(m, In, Fl, Out, 0, 0)

\* pack_serial: the sequence it returns
pack_serial(m, In, Fl) ==
  LET msum == sum_bools_serial(m, Fl)
      m1 == WithBuffer(m, "NewOut", Uninitialized(msum))
  IN  pack_serial_at(m1, In, Fl, make_slice(m1, "NewOut")).m["NewOut"]

\* Sums after the first sliced_for of pack / pack_out: flags summed per block
FlagSums(m, Fl, n, bs) ==
  [i \in 1..num_blocks(n, bs) |->
     sum_bools_serial(m, cut(Fl, BlockStart(i - 1, bs), BlockEnd(i - 1, n, bs)))]

\* scan_inplace(make_slice(Sums), addm<size_t>()): the scanned Sums and the total
ScanSums(sums, bs) ==
  LET sm == [Sums |-> FromValues(sums)]
      sc == scan_inplace(sm, make_slice(sm, "Sums"), addm, no_flag, bs)
  IN  [Sums |-> Values(sc.m.Sums), total |-> sc.r]

RECURSIVE pack_blocks(_, _, _, _, _, _, _, _)
\* the second sliced_for of pack / pack_out / filter, blocks i .. l-1
pack_blocks(m, In, Fl, Out, sums, msum, bs, i) ==
  LET n == size(In)
      l == num_blocks(n, bs)
      s == BlockStart(i, bs)
      e == BlockEnd(i, n, bs)
  IN  IF Computed(m) /\ i < l
        THEN pack_blocks(
               pack_serial_at(
                 m, cut(In, s, e), cut(Fl, s, e),
                 cut(Out, sums[i + 1],
                     IF i = l - 1 THEN msum ELSE sums[i + 2])).m,
               In, Fl, Out, sums, msum, bs, i + 1)
        ELSE m

\* pack: the sequence it returns
pack(m, In, Fl, f, bs) ==
  LET n == size(In)
      l == num_blocks(n, bs)
  IN  IF l = 1 \/ HasFlag(f, fl_sequential) THEN pack_serial(m, In, Fl)
      ELSE LET sc == ScanSums(FlagSums(m, Fl, n, bs), bs)
               m1 == WithBuffer(m, "NewOut", Uninitialized(sc.total))
           IN  pack_blocks(m1, In, Fl, make_slice(m1, "NewOut"),
                           sc.Sums, sc.total, bs, 0)["NewOut"]

\* pack_out: the memory after the call and the count it returns
pack_out(m, In, Fl, Out, f, bs) ==
  LET n == size(In)
      l == num_blocks(n, bs)
  IN  IF l <= 1 \/ HasFlag(f, fl_sequential)
        THEN LET r == pack_serial_at(m, In, cut(Fl, 0, n), Out)
             IN  [m |-> r.m, r |-> r.k]
        ELSE LET sc == ScanSums(FlagSums(m, Fl, n, bs), bs)
             IN  [m |-> pack_blocks(m, In, Fl, Out, sc.Sums, sc.total, bs, 0),
                  r |-> sc.total]

\* the predicates the scenarios filter by
Preds == {"even", "mult3", "positive"}

Pred(p, x) ==
  CASE p = "even" -> x % 2 = 0
    [] p = "mult3" -> x % 3 = 0
    [] p = "positive" -> x > 0

\* map(A, f): a new sequence holding f(A[i])
map(m, In, p) == [i \in 1..size(In) |-> BoolToInt(Pred(p, Read(m, In, i - 1)))]

\* the first sliced_for of filter / filter_out: Fl[j] = f(In[j]) is stored
\* into a sequence<bool>, and the stored values are summed per block
FilterFlags(m, In, p) ==
  [j \in 1..size(In) |-> BoolToInt(Pred(p, Read(m, In, j - 1)))]

\* a filter that allocates its output for all n elements
filter_full_length(m, In, p, bs) ==
  LET n == size(In)
      m1 == WithBuffer(m, "NewFl", FromValues(FilterFlags(m, In, p)))
      Fl == make_slice(m1, "NewFl")
      sc == ScanSums(FlagSums(m1, Fl, n, bs), bs)
      m2 == WithBuffer(m1, "NewOut", Uninitialized(n))
  IN  pack_blocks(m2, In, Fl, make_slice(m2, "NewOut"),
                  sc.Sums, sc.total, bs, 0)["NewOut"]

\* filter: the sequence it returns
filter(m, In, p, bs) ==
  LET n == size(In)
      m1 == WithBuffer(m, "NewFl", FromValues(FilterFlags(m, In, p)))
      Fl == make_slice(m1, "NewFl")
      sc == ScanSums(FlagSums(m1, Fl, n, bs), bs)
      m2 == WithBuffer(m1, "NewOut", Uninitialized(sc.total))
  IN  pack_blocks(m2, In, Fl, make_slice(m2, "NewOut"),
                  sc.Sums, sc.total, bs, 0)["NewOut"]

\* filter_out: the memory after the call and the count it returns
filter_out(m, In, Out, p, bs) ==
  LET n == size(In)
      m1 == WithBuffer(m, "NewFl", FromValues(FilterFlags(m, In, p)))
      Fl == make_slice(m1, "NewFl")
      sc == ScanSums(FlagSums(m1, Fl, n, bs), bs)
  IN  [m |-> pack_blocks(m1, In, Fl, Out, sc.Sums, sc.total, bs, 0),
       r |-> sc.total]

\* Sums of split_two: per block, the number of flags equal to false
FalseSums(m, Fl, n, bs) ==
  [i \in 1..num_blocks(n, bs) |->
     Cardinality({j \in BlockStart(i - 1, bs)..(BlockEnd(i - 1, n, bs) - 1) :
                    Read(m, Fl, j) = 0})]

RECURSIVE split_two_block(_, _, _, _, _, _, _, _)
\* the loop of a block of the second sliced_for of split_two, from j on
split_two_block(m, In, Fl, Out, j, e, c0, c1) ==
  IF Computed(m) /\ j < e
    THEN IF Read(m, Fl, j) = 0
           THEN split_two_block(Write(m, Out, c0, Read(m, In, j)),
                                In, Fl, Out, j + 1, e, c0 + 1, c1)
           ELSE split_two_block(Write(m, Out, c1, Read(m, In, j)),
                                In, Fl, Out, j + 1, e, c0, c1 + 1)
    ELSE m

RECURSIVE split_two_blocks(_, _, _, _, _, _, _, _)
split_two_blocks(m, In, Fl, Out, sums, msum, bs, i) ==
  LET n == size(In)
      s == BlockStart(i, bs)
      e == BlockEnd(i, n, bs)
      c0 == sums[i + 1]
      c1 == s + (msum - c0)
  IN  IF Computed(m) /\ i < num_blocks(n, bs)
        THEN split_two_blocks(split_two_block(m, In, Fl, Out, s, e, c0, c1),
                              In, Fl, Out, sums, msum, bs, i + 1)
        ELSE m

\* a split_two that returns the number of true flags
split_two_true_count(m, In, Fl, f, bs) ==
  LET n == size(In)
      sc == ScanSums(FalseSums(m, Fl, n, bs), bs)
      m1 == WithBuffer(m, "NewOut", Uninitialized(n))
  IN  [Out |-> split_two_blocks(m1, In, Fl, make_slice(m1, "NewOut"),
                                sc.Sums, sc.total, bs, 0)["NewOut"],
       m |-> n - sc.total]

\* split_two: the pair (Out, m) it returns
split_two(m, In, Fl, f, bs) ==
  LET n == size(In)
      sc == ScanSums(FalseSums(m, Fl, n, bs), bs)
      m1 == WithBuffer(m, "NewOut", Uninitialized(n))
  IN  [Out |-> split_two_blocks(m1, In, Fl, make_slice(m1, "NewOut"),
                                sc.Sums, sc.total, bs, 0)["NewOut"],
       m |-> sc.total]

\* Sums0 / Sums1 of split_three: per block, the number of flags equal to c
ClassSums(m, Fl, n, bs, c) ==
  [i \in 1..num_blocks(n, bs) |->
     Cardinality({j \in BlockStart(i - 1, bs)..(BlockEnd(i - 1, n, bs) - 1) :
                    Read(m, Fl, j) = c})]

RECURSIVE split_three_block(_, _, _, _, _, _, _, _, _)
split_three_block(m, In, Fl, Out, j, e, c0, c1, c2) ==
  IF Computed(m) /\ j < e
    THEN IF Read(m, Fl, j) = 0
           THEN split_three_block(Write(m, Out, c0, Read(m, In, j)),
                                  In, Fl, Out, j + 1, e, c0 + 1, c1, c2)
         ELSE IF Read(m, Fl, j) = 1
           THEN split_three_block(Write(m, Out, c1, Read(m, In, j)),
                                  In, Fl, Out, j + 1, e, c0, c1 + 1, c2)
           ELSE split_three_block(Write(m, Out, c2, Read(m, In, j)),
                                  In, Fl, Out, j + 1, e, c0, c1, c2 + 1)
    ELSE m

RECURSIVE split_three_blocks(_, _, _, _, _, _, _, _, _, _)
split_three_blocks(m, In, Fl, Out, sums0, sums1, m0, m1, bs, i) ==
  LET n == size(In)
      s == BlockStart(i, bs)
      e == BlockEnd(i, n, bs)
      c0 == sums0[i + 1]
      c1 == m0 + sums1[i + 1]
      c2 == m0 + m1 + (s - sums0[i + 1] - sums1[i + 1])
  IN  IF Computed(m) /\ i < num_blocks(n, bs)
        THEN split_three_blocks(
               split_three_block(m, In, Fl, Out, s, e, c0, c1, c2),
               In, Fl, Out, sums0, sums1, m0, m1, bs, i + 1)
        ELSE m

\* a split_three that returns the offset m0 + m1 of the third class where
\* it should return the count m1
split_three_offsets(m, In, Out, Fl, f, bs) ==
  LET n == size(In)
  IN  IF slice_eq(In, Out)
        THEN [m |-> m, thrown |-> TRUE, m0 |-> 0, m1 |-> 0]
        ELSE LET sc0 == ScanSums(ClassSums(m, Fl, n, bs, 0), bs)
                 sc1 == ScanSums(ClassSums(m, Fl, n, bs, 1), bs)
             IN  [m |-> split_three_blocks(m, In, Fl, Out, sc0.Sums, sc1.Sums,
                                           sc0.total, sc1.total, bs, 0),
                  thrown |-> FALSE, m0 |-> sc0.total,
                  m1 |-> sc0.total + sc1.total]

\* a split_three that runs its blocks without looking at In and Out first
split_three_unchecked(m, In, Out, Fl, f, bs) ==
  LET n == size(In)
      sc0 == ScanSums(ClassSums(m, Fl, n, bs, 0), bs)
      sc1 == ScanSums(ClassSums(m, Fl, n, bs, 1), bs)
  IN  [m |-> split_three_blocks(m, In, Fl, Out, sc0.Sums, sc1.Sums,
                                sc0.total, sc1.total, bs, 0),
       thrown |-> FALSE, m0 |-> sc0.total, m1 |-> sc1.total]

\* split_three: the memory after the call, whether it threw
\* std::invalid_argument, and the pair (m0, m1) it returns otherwise
split_three(m, In, Out, Fl, f, bs) ==
  LET n == size(In)
  IN  IF slice_eq(In, Out)
        THEN [m |-> m, thrown |-> TRUE, m0 |-> 0, m1 |-> 0]
        ELSE LET sc0 == ScanSums(ClassSums(m, Fl, n, bs, 0), bs)
                 sc1 == ScanSums(ClassSums(m, Fl, n, bs, 1), bs)
             IN  [m |-> split_three_blocks(m, In, Fl, Out, sc0.Sums, sc1.Sums,
                                           sc0.total, sc1.total, bs, 0),
                  thrown |-> FALSE, m0 |-> sc0.total, m1 |-> sc1.total]

-----------------------------------------------------------------------------
(* quicksort.  An iterator is a zero-based offset into the array a.        *)

\* the comparisons the scenarios sort by: std::less, std::greater, and a
\* strict weak order under which distinct values can be equivalent
Comparisons == {"less", "greater", "less_half"}

lt(c, x, y) ==
  CASE c = "less" -> x < y
    [] c = "greater" -> x > y
    [] c = "less_half" -> (x \div 2) < (y \div 2)

\* iterator types: a raw pointer to 8-byte integers, and a raw pointer to
\* elements that are themselves pointers
SortTypes == {[value_is_pointer |-> FALSE, sizeof_iterator |-> 8],
              [value_is_pointer |-> TRUE, sizeof_iterator |-> 8]}

\* a base case that ends below four elements
base_case_below_four(ty, n) == n < 4

base_case(ty, n) ==
  LET large == ty.value_is_pointer \/ ty.sizeof_iterator > 8
  IN  IF large THEN n < 16 ELSE n < 24

\* below this length quicksort hands over to quicksort_serial
quicksort_cutoff == 2 ^ 10

\* std::swap(a[i], a[j])
Swap(a, i, j) == [a EXCEPT ![i + 1] = a[j + 1], ![j + 1] = a[i + 1]]

RECURSIVE insertion_inner(_, _, _, _)
\* while (--j >= 0 && f(A[j + 1], A[j])) swap(A[j + 1], A[j]),
\* j being the value after the decrement
insertion_inner(a, lo, j, c) ==
  IF j >= 0 /\ lt(c, a[lo + j + 2], a[lo + j + 1])
    THEN insertion_inner(Swap(a, lo + j + 1, lo + j), lo, j - 1, c)
    ELSE a

RECURSIVE insertion_outer(_, _, _, _, _)
insertion_outer(a, lo, n, i, c) ==
  IF Computed(a) /\ i < n
    THEN insertion_outer(insertion_inner(a, lo, i - 1, c), lo, n, i + 1, c)
    ELSE a

\* an insertion sort whose outer loop starts at i = 2
insertion_sort_from_two(a, lo, n, c) == insertion_outer(a, lo, n, 2, c)

\* insertion_sort(A, n, f) with A = a + lo
insertion_sort(a, lo, n, c) == insertion_outer(a, lo, n, 1, c)

RECURSIVE sort5_swaps(_, _, _, _)
\* for (l = ...; l < 5; l++) swap(A[l], A[m * (l + 1)])
sort5_swaps(a, lo, m, l) ==
  IF Computed(a) /\ l < 5
    THEN sort5_swaps(Swap(a, lo + l, lo + m * (l + 1)), lo, m, l + 1)
    ELSE a

sort5(a, lo, n, c) ==
  LET m == n \div (5 + 1)
  IN  insertion_sort(sort5_swaps(a, lo, m, 0), lo, 5, c)

\* a split3 whose L starts at A + 1, on the second pivot
split3_begin_L_at_pivot(a, lo, n, c) ==
  LET a1 == sort5(a, lo, n, c)
      a2 == Swap(a1, lo, lo + 1)
      a3 == Swap(a2, lo + 1, lo + 3)
  IN  [a |-> a3,
       st |-> [pc |-> "skipL", lo |-> lo, n |-> n,
               pivots_equal |-> ~lt(c, a3[lo + 1], a3[lo + 2]),
               L |-> lo + 1, M |-> lo + 1, R |-> lo + n - 1]]

\* a split3 that always reports equal pivots
split3_begin_always_equal(a, lo, n, c) ==
  LET a1 == sort5(a, lo, n, c)
      a2 == Swap(a1, lo, lo + 1)
      a3 == Swap(a2, lo + 1, lo + 3)
  IN  [a |-> a3,
       st |-> [pc |-> "skipL", lo |-> lo, n |-> n,
               pivots_equal |-> TRUE,
               L |-> lo + 2, M |-> lo + 2, R |-> lo + n - 1]]

\* split3 up to the two skip loops: sort5, the pivots moved to A[0] and
\* A[1], L and R set up.  p1 and p2 are references to A[0] and A[1].
split3_begin(a, lo, n, c) ==
  LET a1 == sort5(a, lo, n, c)
      a2 == Swap(a1, lo, lo + 1)
      a3 == Swap(a2, lo + 1, lo + 3)
  IN  [a |-> a3,
       st |-> [pc |-> "skipL", lo |-> lo, n |-> n,
               pivots_equal |-> ~lt(c, a3[lo + 1], a3[lo + 2]),
               L |-> lo + 2, M |-> lo + 2, R |-> lo + n - 1]]

\* whether iterator k may be dereferenced in A[0..n)
InRange(st, k) == st.lo <= k /\ k < st.lo + st.n

\* a dereference outside A[0..n): the behaviour is undefined from here on
Undefined(a, st) == [a |-> a, st |-> [st EXCEPT !.pc = "undefined"]]

\* one iteration of the body of `while (M <= R)` up to and including R--
\* (first and third branch: up to the M++ that ends the iteration)
split3_body(a, st, c) ==
  LET p1 == a[st.lo + 1]
      p2 == a[st.lo + 2]
      L == st.L
      M == st.M
      R == st.R
  IN  IF ~InRange(st, M) THEN Undefined(a, st)
      ELSE IF lt(c, a[M + 1], p1)
        THEN IF ~InRange(st, L) THEN Undefined(a, st)
             ELSE [a |-> Swap(a, M, L),
                   st |-> [st EXCEPT !.L = L + 1, !.M = M + 1]]
      ELSE IF lt(c, p2, a[M + 1])
        THEN IF ~InRange(st, R) THEN Undefined(a, st)
             ELSE LET a1 == Swap(a, M, R)
                  IN  IF lt(c, a1[M + 1], a1[st.lo + 1])
                        THEN IF ~InRange(st, L) THEN Undefined(a, st)
                             ELSE [a |-> Swap(a1, L, M),
                                   st |-> [st EXCEPT !.L = L + 1,
                                                     !.R = R - 1,
                                                     !.pc = "innerR"]]
                        ELSE [a |-> a1,
                              st |-> [st EXCEPT !.R = R - 1,
                                                !.pc = "innerR"]]
      ELSE [a |-> a, st |-> [st EXCEPT !.M = M + 1]]

\* one step of split3 between sort5 and the final swaps: an evaluation of
\* one loop condition together with the loop body it guards
split3_step(a, st, c) ==
  LET p1 == a[st.lo + 1]
      p2 == a[st.lo + 2]
  IN  CASE st.pc = "skipL" ->
             IF ~InRange(st, st.L) THEN Undefined(a, st)
             ELSE IF lt(c, a[st.L + 1], p1)
               THEN [a |-> a, st |-> [st EXCEPT !.L = st.L + 1]]
               ELSE [a |-> a, st |-> [st EXCEPT !.pc = "skipR"]]
        [] st.pc = "skipR" ->
             IF ~InRange(st, st.R) THEN Undefined(a, st)
             ELSE IF lt(c, p2, a[st.R + 1])
               THEN [a |-> a, st |-> [st EXCEPT !.R = st.R - 1]]
               ELSE [a |-> a, st |-> [st EXCEPT !.M = st.L, !.pc = "loop"]]
        [] st.pc = "loop" ->
             IF st.M <= st.R
               THEN split3_body(a, st, c)
               ELSE [a |-> a, st |-> [st EXCEPT !.pc = "swap"]]
        [] st.pc = "innerR" ->
             IF ~InRange(st, st.R) THEN Undefined(a, st)
             ELSE IF lt(c, p2, a[st.R + 1])
               THEN [a |-> a, st |-> [st EXCEPT !.R = st.R - 1]]
               ELSE [a |-> a,
                     st |-> [st EXCEPT !.M = st.M + 1, !.pc = "loop"]]

\* a split3 that returns L = M = A + n: the left part is the whole range
split3_end_whole_left(a, st) ==
  [a |-> a, L |-> st.lo + st.n, M |-> st.lo + st.n, mid_eq |-> TRUE,
   defined |-> TRUE]

\* a split3 that returns without swapping the pivots into position
split3_end_no_swaps(a, st) ==
  [a |-> a, L |-> st.L - 2, M |-> st.M, mid_eq |-> st.pivots_equal,
   defined |-> TRUE]

\* the end of split3: the pivots swapped into position; L is the value
\* returned (after L -= 2)
split3_end(a, st) ==
  LET L == st.L - 2
      a1 == Swap(a, st.lo + 1, L + 1)
      a2 == Swap(a1, st.lo, L)
      a3 == Swap(a2, L + 1, st.R)
  IN  IF InRange(st, L) /\ InRange(st, L + 1) /\ InRange(st, st.R)
        THEN [a |-> a3, L |-> L, M |-> st.M, mid_eq |-> st.pivots_equal,
              defined |-> TRUE]
        ELSE [a |-> a, L |-> L, M |-> st.M, mid_eq |-> st.pivots_equal,
              defined |-> FALSE]

-----------------------------------------------------------------------------
(* What the kernels are specified to compute *)

RECURSIVE LeftFoldTo(_, _, _)
\* identity (+) s[1] (+) ... (+) s[k], folded from the left
LeftFoldTo(s, mo, k) ==
  IF k = 0 THEN mo.identity ELSE m_f(mo, LeftFoldTo(s, mo, k - 1), s[k])

LeftFold(s, mo) == LeftFoldTo(s, mo, Len(s))

\* the values of s at (zero-based) positions lo .. hi-1
Sub(s, lo, hi) == [i \in 1..(hi - lo) |-> s[lo + i]]

RECURSIVE SelectTo(_, _, _)
\* the elements s[i], i <= k, with keep[i], in increasing order of i
SelectTo(s, keep, k) ==
  IF k = 0 THEN <<>>
  ELSE IF keep[k] THEN Append(SelectTo(s, keep, k - 1), s[k])
  ELSE SelectTo(s, keep, k - 1)

Select(s, keep) == SelectTo(s, keep, Len(s))

-----------------------------------------------------------------------------
(* Inputs *)

\* the element codes of the inputs
Codes == {0, 1, 2}

\* the tests' generator (a*i + b) mod M, here over the codes
Gen(n, a, b) == [i \in 1..n |-> (a * (i - 1) + b) % Cardinality(Codes)]

NoBuffer == <<>>

NoRet == "none"

SortIdle == A = <<>> /\ stack = <<>> /\ reg = <<>> /\ sortArg = <<>>

\* the In and Out arguments of the running kernel
InSlice == make_slice(mem, "In")

OutSlice == make_slice(mem, outb)

-----------------------------------------------------------------------------
(* The compaction kernels, each called once on an input (In, Fl).          *)

MaxPackLen == 4

FlagVals == {0, 1, 2}

Init ==
  /\ mon = addm
  /\ bsz \in BlockSizes
  /\ fl = no_flag
  /\ outb = "Out"
  /\ \E n \in 0..MaxPackLen :
       /\ \E a \in Codes, b \in Codes : In0 = Gen(n, a, b)
       /\ \E flags \in [1..n -> FlagVals] :
            mem = [In |-> FromValues(In0), Out |-> NoBuffer,
                   Fl |-> FromValues(flags), Sums |-> NoBuffer]
  /\ pc = "call"
  /\ ret = NoRet
  /\ task = <<>>
  /\ SortIdle

Fl0 == Values(mem.Fl)

Truthy == [i \in 1..Len(Fl0) |-> Fl0[i] # 0]

Falsy == [i \in 1..Len(Fl0) |-> Fl0[i] = 0]

IsBoolSeq(F) == \A i \in 1..Len(F) : F[i] \in {0, 1}

FlSlice == make_slice(mem, "Fl")

Pack ==
  /\ pc = "call"
  /\ pc' = "pack"
  /\ \E f \in {no_flag, fl_sequential} :
       ret' = [fl |-> f, Out |-> pack(mem, InSlice, FlSlice, f, bsz)]
  /\ UNCHANGED <<argVars, sortVars, mem, task>>

\* pack_out into a caller's buffer of exactly the right length; Fl is a
\* sequence of bool
PackOut ==
  /\ pc = "call"
  /\ IsBoolSeq(Fl0)
  /\ \E f \in {no_flag, fl_sequential} :
       LET m1 == [mem EXCEPT !.Out = NewSeq(Len(Select(In0, Truthy)), 0)]
           r == pack_out(m1, InSlice, FlSlice, make_slice(m1, "Out"), f, bsz)
       IN  /\ mem' = r.m
           /\ ret' = [fl |-> f, r |-> r.r]
  /\ pc' = "pack_out"
  /\ UNCHANGED <<argVars, sortVars, task>>

Filter ==
  /\ pc = "call"
  /\ pc' = "filter"
  /\ \E p \in Preds : ret' = [p |-> p, Out |-> filter(mem, InSlice, p, bsz)]
  /\ UNCHANGED <<argVars, sortVars, mem, task>>

FilterOut ==
  /\ pc = "call"
  /\ pc' = "filter_out"
  /\ \E p \in Preds :
       LET keep == [i \in 1..Len(In0) |-> Pred(p, In0[i])]
           m1 == [mem EXCEPT !.Out = NewSeq(Len(Select(In0, keep)), 0)]
           r == filter_out(m1, InSlice, make_slice(m1, "Out"), p, bsz)
       IN  /\ mem' = [m1 EXCEPT !.Out = r.m["Out"]]
           /\ ret' = [p |-> p, r |-> r.r]
  /\ UNCHANGED <<argVars, sortVars, task>>

SplitTwo ==
  /\ pc = "call"
  /\ pc' = "split_two"
  /\ ret' = split_two(mem, InSlice, FlSlice, fl, bsz)
  /\ UNCHANGED <<argVars, sortVars, mem, task>>

\* split_three into a buffer of the caller's (ob = "Out") or into In itself
SplitThree ==
  /\ pc = "call"
  /\ pc' = "split_three"
  /\ \E ob \in {"In", "Out"} :
       LET m1 == [mem EXCEPT !.Out = NewSeq(Len(In0), 0)]
           r == split_three(m1, InSlice, make_slice(m1, ob), FlSlice, fl, bsz)
       IN  /\ mem' = r.m
           /\ ret' = [out |-> ob, thrown |-> r.thrown,
                      m0 |-> r.m0, m1 |-> r.m1]
  /\ UNCHANGED <<argVars, sortVars, task>>

Next ==
  \/ Pack
  \/ PackOut
  \/ Filter
  \/ FilterOut
  \/ SplitTwo
  \/ SplitThree

Spec == Init /\ [][Next]_vars

AssignedOnce(buf) == \A i \in 1..Len(buf) : buf[i].w = 1

\* C4: for boolean flags, pack and pack_out produce exactly the elements
\* A[i] with F[i] true, in increasing order of i, and the output length (the
\* value pack_out returns) is the number of true flags.
PackIdentity ==
  IsBoolSeq(Fl0) =>
    /\ pc = "pack" =>
         /\ Values(ret.Out) = Select(In0, Truthy)
         /\ Len(ret.Out) = Cardinality({i \in 1..Len(Fl0) : Fl0[i] = 1})
    /\ pc = "pack_out" =>
         /\ Values(mem.Out) = Select(In0, Truthy)
         /\ ret.r = Cardinality({i \in 1..Len(Fl0) : Fl0[i] = 1})

\* pack has run on the parallel path over a partly filled last block and
\* kept some elements and dropped others
PackBlockedDone ==
  /\ pc = "pack"
  /\ IsBoolSeq(Fl0)
  /\ bsz = 2 /\ Len(In0) = 3 /\ ret.fl = no_flag
  /\ Fl0 = <<0, 1, 1>>
  /\ In0 = <<0, 1, 2>>

\* C5 as claimed: for integer flags, every non-zero one truthy, pack returns
\* as many elements as there are truthy flags and has assigned each slot of
\* its output exactly once.
PackConvertibleExact ==
  pc = "pack" =>
    /\ Len(ret.Out) = Cardinality({i \in 1..Len(Fl0) : Fl0[i] # 0})
    /\ AssignedOnce(ret.Out)

\* pack(A, map(A, p)) for the input of the scenario
PackOfMap(p) ==
  LET m1 == [mem EXCEPT !.Fl = FromValues(map(mem, InSlice, p))]
  IN  Values(pack(m1, InSlice, make_slice(m1, "Fl"), no_flag, bsz))

\* C6: filter(A, p) equals pack(A, map(A, p)) element for element, and
\* filter_out writes the same elements to Out[0..m) and returns m, the
\* number of elements satisfying p.
FilterIsPackOfMap ==
  /\ pc = "filter" => Values(ret.Out) = PackOfMap(ret.p)
  /\ pc = "filter_out" =>
       /\ ret.r = Cardinality({i \in 1..Len(In0) : Pred(ret.p, In0[i])})
       /\ ret.r = Len(PackOfMap(ret.p))
       /\ Sub(Values(mem.Out), 0, ret.r) = PackOfMap(ret.p)

\* filter has kept some and dropped other elements of a one-block input,
\* which pack handles on its serial path
FilterDone ==
  /\ pc = "filter"
  /\ ret.p = "even"
  /\ num_blocks(Len(In0), bsz) = 1
  /\ In0 = <<1, 2, 0>>
  /\ Values(ret.Out) = <<2, 0>>

\* C7: split_two returns (Out, m), m the number of false flags, Out[0..m)
\* the elements with false flags and Out[m..n) those with true flags, both
\* in input order, every index of Out written exactly once.
SplitTwoStable ==
  pc = "split_two" =>
    /\ ret.m = Cardinality({i \in 1..Len(Fl0) : Fl0[i] = 0})
    /\ Values(ret.Out) = Select(In0, Falsy) \o Select(In0, Truthy)
    /\ AssignedOnce(ret.Out)

\* split_two has run over two blocks with false and true flags in each
SplitTwoDone ==
  /\ pc = "split_two"
  /\ bsz = 2
  /\ In0 = <<0, 1, 2, 0>>
  /\ Fl0 = <<1, 0, 1, 0>>
  /\ Values(ret.Out) = <<1, 0, 0, 2>>

ClassOf(c) == [i \in 1..Len(Fl0) |-> IF c = 2 THEN Fl0[i] >= 2 ELSE Fl0[i] = c]

\* C8: for distinct In and Out, split_three returns (m0, m1), the numbers
\* of 0 and of 1 flags, and leaves Out = class 0, class 1, class >= 2, each
\* in input order, every index of Out written exactly once.
SplitThreeStable ==
  (pc = "split_three" /\ ret.out = "Out") =>
    /\ ret.m0 = Cardinality({i \in 1..Len(Fl0) : Fl0[i] = 0})
    /\ ret.m1 = Cardinality({i \in 1..Len(Fl0) : Fl0[i] = 1})
    /\ Values(mem.Out) = Select(In0, ClassOf(0)) \o Select(In0, ClassOf(1))
                           \o Select(In0, ClassOf(2))
    /\ AssignedOnce(mem.Out)
    /\ Values(mem.In) = In0

\* split_three has run into a separate Out over two blocks holding all
\* three classes
SplitThreeDone ==
  /\ pc = "split_three"
  /\ ret.out = "Out"
  /\ bsz = 2
  /\ In0 = <<0, 1, 2, 0>>
  /\ Fl0 = <<2, 1, 0, 1>>
  /\ Values(mem.Out) = <<2, 1, 0, 0>>

\* C9: with In and Out the same storage split_three throws before any
\* block runs: nothing is modified and no counts are returned; with
\* distinct storage it does not throw.
SplitThreeAliasThrows ==
  pc = "split_three" =>
    /\ ret.out = "In" =>
         /\ ret.thrown
         /\ mem.In = FromValues(In0)
         /\ mem.Out = NewSeq(Len(In0), 0)
         /\ ret.m0 = 0 /\ ret.m1 = 0
    /\ ret.out = "Out" => ~ret.thrown

\* split_three has been called with Out the same storage as In on an
\* input of four blocks
SplitThreeAliased ==
  /\ pc = "split_three"
  /\ ret.out = "In"
  /\ Len(In0) = 4
  /\ bsz = 1
  /\ Fl0 = <<2, 1, 0, 1>>

-----------------------------------------------------------------------------
(* reduce as a fork-join computation: the block tasks of sliced_for run in *)
(* any order, the join precedes the combine.                               *)

InitReduce ==
  /\ mon \in Monoids
  /\ bsz \in BlockSizes
  /\ fl \in {no_flag, fl_sequential}
  /\ outb = "Out"
  /\ \E n \in 0..MaxReduceLen, a \in Codes, b \in Codes :
       /\ In0 = [i \in 1..n |-> Elem(mon, Gen(n, a, b)[i])]
       /\ mem = [In |-> FromValues(In0), Out |-> NoBuffer,
                 Fl |-> NoBuffer, Sums |-> NoBuffer]
  /\ pc = "reduce"
  /\ ret = NoRet
  /\ task = {}
  /\ SortIdle

ReduceCall ==
  /\ pc = "reduce"
  /\ LET sl == make_slice(mem, "In")
         n == size(sl)
         block_size == reduce_block_size(n, bsz)
         l == num_blocks(n, block_size)
     IN  IF l = 0
           THEN /\ ret' = mon.identity
                /\ pc' = "done"
                /\ UNCHANGED <<mem, task>>
         ELSE IF l = 1 \/ HasFlag(fl, fl_sequential)
           THEN /\ ret' = reduce_serial(mem, sl, mon)
                /\ pc' = "done"
                /\ UNCHANGED <<mem, task>>
         ELSE /\ mem' = [mem EXCEPT !.Sums = NewSeq(l, DefaultT(mon))]
              /\ task' = 0..(l - 1)
              /\ pc' = "reduce_blocks"
              /\ UNCHANGED ret
  /\ UNCHANGED <<argVars, sortVars>>

ReduceBlock(i) ==
  /\ pc = "reduce_blocks"
  /\ i \in task
  /\ LET sl == make_slice(mem, "In")
         n == size(sl)
         block_size == reduce_block_size(n, bsz)
         s == BlockStart(i, block_size)
         e == BlockEnd(i, n, block_size)
     IN  mem' = Write(mem, make_slice(mem, "Sums"), i,
                      reduce_serial(mem, cut(sl, s, e), mon))
  /\ task' = task \ {i}
  /\ UNCHANGED <<argVars, sortVars, pc, ret>>

ReduceJoin ==
  /\ pc = "reduce_blocks"
  /\ task = {}
  /\ ret' = reduce(mem, make_slice(mem, "Sums"), mon, no_flag, bsz)
  /\ pc' = "done"
  /\ UNCHANGED <<argVars, sortVars, mem, task>>

NextReduce ==
  \/ ReduceCall
  \/ \E i \in 0..MaxReduceLen : ReduceBlock(i)
  \/ ReduceJoin

SpecReduce == InitReduce /\ [][NextReduce]_vars

\* C1: reduce(A, m) is the ordered left fold of A from m.identity (m.identity
\* when A is empty), for commutative and non-commutative monoids alike, and
\* on the blocked path Sums[i] holds the fold of block i, in block order.
ReduceMatchesLeftFold ==
  /\ pc = "done" => ret = LeftFold(In0, mon)
  /\ pc = "reduce_blocks" =>
       LET n == Len(In0)
           block_size == reduce_block_size(n, bsz)
       IN  \A i \in (0..(Len(mem.Sums) - 1)) \ task :
             mem.Sums[i + 1].v =
               LeftFold(Sub(In0, BlockStart(i, block_size),
                            BlockEnd(i, n, block_size)), mon)

\* a blocked reduce of a non-commutative monoid has returned a result that
\* depends on the order of its operands
ReduceBlockedDone ==
  /\ pc = "done"
  /\ Len(mem.Sums) >= 2
  /\ mon = concat
  /\ \E i \in 1..Len(ret), j \in 1..Len(ret) : ret[i] # ret[j]

-----------------------------------------------------------------------------
(* scan_ as a fork-join computation.  Each block task of the two           *)
(* sliced_for regions advances one element at a time and the tasks of a    *)
(* region interleave freely; the serial scan of Sums runs between the two  *)
(* joins.  With outb = "In" this is scan_inplace.                          *)

ScanCodes == {1, 2}

ScanFlags == {no_flag, fl_scan_inclusive, fl_sequential,
              fl_sequential + fl_scan_inclusive}

\* the prefix folds a scan is specified to write
PrefixFolds(s, mo, inclusive) ==
  [i \in 1..Len(s) |-> LeftFoldTo(s, mo, IF inclusive THEN i ELSE i - 1)]

ScanBlocks == num_blocks(size(InSlice), bsz)

ScanBlockSize(i) == BlockEnd(i, size(InSlice), bsz) - BlockStart(i, bsz)

InitScan ==
  /\ mon \in Monoids
  /\ bsz \in BlockSizes
  /\ fl \in ScanFlags
  /\ outb \in {"In", "Out"}
  /\ \E n \in 0..MaxLen : \E codes \in [1..n -> ScanCodes] :
       /\ In0 = [i \in 1..n |-> Elem(mon, codes[i])]
       /\ mem = [In |-> FromValues(In0), Out |-> NewSeq(n, DefaultT(mon)),
                 Fl |-> NoBuffer, Sums |-> NoBuffer]
  /\ pc = "scan"
  /\ ret = NoRet
  /\ task = <<>>
  /\ SortIdle

ScanCall ==
  /\ pc = "scan"
  /\ LET l == ScanBlocks
     IN  IF l <= 2 \/ HasFlag(fl, fl_sequential)
           THEN LET sc == scan_serial(mem, InSlice, OutSlice, mon,
                                      mon.identity, fl)
                IN  /\ mem' = sc.m
                    /\ ret' = sc.r
                    /\ pc' = "done"
                    /\ UNCHANGED task
           ELSE /\ mem' = [mem EXCEPT !.Sums = NewSeq(l, DefaultT(mon))]
                /\ task' = [i \in 0..(l - 1) |-> [j |-> 0, r |-> DefaultT(mon)]]
                /\ pc' = "up"
                /\ UNCHANGED ret
  /\ UNCHANGED <<argVars, sortVars>>

\* block task i of the up-sweep reads its next element; after the last one
\* it stores its partial result in Sums[i]
ScanUpStep(i) ==
  /\ pc = "up"
  /\ i \in DOMAIN task
  /\ task[i].j < ScanBlockSize(i)
  /\ LET blk == cut(InSlice, BlockStart(i, bsz), BlockEnd(i, size(InSlice), bsz))
         j == task[i].j
         r == IF j = 0 THEN Read(mem, blk, 0)
                       ELSE m_f(mon, task[i].r, Read(mem, blk, j))
     IN  /\ task' = [task EXCEPT ![i] = [j |-> j + 1, r |-> r]]
         /\ mem' = IF j + 1 = size(blk)
                     THEN Write(mem, make_slice(mem, "Sums"), i, r)
                     ELSE mem
  /\ UNCHANGED <<argVars, sortVars, pc, ret>>

\* after the join: the serial exclusive scan of Sums, then the fork of the
\* down-sweep, whose task i starts from offset Sums[i]
ScanCombine ==
  /\ pc = "up"
  /\ \A i \in DOMAIN task : task[i].j = ScanBlockSize(i)
  /\ LET S == make_slice(mem, "Sums")
         sc == scan_serial(mem, S, S, mon, mon.identity, no_flag)
     IN  /\ mem' = sc.m
         /\ ret' = sc.r
         /\ task' = [i \in DOMAIN task |-> [j |-> 0, r |-> Read(sc.m, S, i)]]
  /\ pc' = "down"
  /\ UNCHANGED <<argVars, sortVars>>

\* block task i of the down-sweep runs one iteration of scan_serial
ScanDownStep(i) ==
  /\ pc = "down"
  /\ i \in DOMAIN task
  /\ task[i].j < ScanBlockSize(i)
  /\ LET s == BlockStart(i, bsz)
         e == BlockEnd(i, size(InSlice), bsz)
         st == scan_serial_step(mem, cut(InSlice, s, e), cut(OutSlice, s, e),
                                mon, task[i].r, task[i].j,
                                HasFlag(fl, fl_scan_inclusive))
     IN  /\ mem' = st.m
         /\ task' = [task EXCEPT ![i] = [j |-> @.j + 1, r |-> st.r]]
  /\ UNCHANGED <<argVars, sortVars, pc, ret>>

ScanJoin ==
  /\ pc = "down"
  /\ \A i \in DOMAIN task : task[i].j = ScanBlockSize(i)
  /\ pc' = "done"
  /\ UNCHANGED <<argVars, sortVars, mem, ret, task>>

NextScan ==
  \/ ScanCall
  \/ \E i \in 0..MaxLen : ScanUpStep(i)
  \/ ScanCombine
  \/ \E i \in 0..MaxLen : ScanDownStep(i)
  \/ ScanJoin

SpecScan == InitScan /\ [][NextScan]_vars

\* C2: scan writes Out[i] = fold of A[0..i) (exclusive) or of A[0..i]
\* (inclusive) and returns the fold of all of A, on the serial path and on
\* the three-pass blocked path alike.
ScanPrefixLaw ==
  (pc = "done" /\ outb = "Out") =>
     /\ Values(mem.Out) = PrefixFolds(In0, mon, HasFlag(fl, fl_scan_inclusive))
     /\ ret = LeftFold(In0, mon)
     /\ Values(mem.In) = In0

\* a blocked scan into a separate Out has finished, over a non-commutative
\* monoid and a last block that is not full
ScanBlockedDone ==
  /\ pc = "done"
  /\ outb = "Out"
  /\ Len(mem.Sums) >= 3
  /\ Len(In0) % bsz # 0
  /\ mon = concat
  /\ In0[1] # In0[2]

\* the Out and total that scan_ produces from contents s when Out is a
\* buffer of its own
ScanOfOriginal(s) ==
  LET m0 == [In |-> FromValues(s), Out |-> NewSeq(Len(s), DefaultT(mon))]
      sc == scan_(m0, make_slice(m0, "In"), make_slice(m0, "Out"), mon, fl, bsz)
  IN  [Out |-> Values(sc.m.Out), total |-> sc.r]

\* C3: scan_inplace leaves A equal to the Out that scan produces from the
\* original contents and returns the same total; under every interleaving
\* of the block tasks an element keeps its original value until the
\* up-sweep is over and the down-sweep step that consumes it has run.
ScanInplaceFidelity ==
  outb = "In" =>
    /\ pc = "done" =>
         /\ Values(mem.In) = ScanOfOriginal(In0).Out
         /\ ret = ScanOfOriginal(In0).total
    /\ pc = "up" => Values(mem.In) = In0
    /\ pc = "down" =>
         \A i \in DOMAIN task :
           \A k \in (BlockStart(i, bsz) + task[i].j)..
                    (BlockEnd(i, Len(In0), bsz) - 1) :
              mem.In[k + 1] = Cell(In0[k + 1], 1)

\* an exclusive in-place scan is in its down-sweep with some elements
\* already overwritten and others still to be consumed
ScanInplaceMidSweep ==
  /\ outb = "In"
  /\ pc = "down"
  /\ ~HasFlag(fl, fl_scan_inclusive)
  /\ \E i \in DOMAIN task : task[i].j = ScanBlockSize(i) /\ ScanBlockSize(i) = 2
  /\ \E i \in DOMAIN task : task[i].j = 0
  /\ Values(mem.In) # In0


-----------------------------------------------------------------------------
(* quicksort and quicksort_serial as a machine: `stack` holds the calls    *)
(* still to run, the running one first; `reg` holds the locals of the      *)
(* split3 in progress.                                                      *)

MaxSortLen == 26

\* (a, b, M): element i is (a * i + b) % M
SortPatterns == {<<0, 0, 1>>, <<1, 0, 2048>>, <<2047, 2047, 2048>>,
                 <<1, 0, 2>>, <<1, 0, 3>>, <<5, 3, 7>>, <<3, 1, 4>>,
                 <<37, 61, 64>>, <<11, 5, 16>>}

LargePatterns == {<<0, 0, 1>>, <<37, 61, 64>>, <<389, 7, 2048>>}

SortGen(n, g) == [i \in 1..n |-> (g[1] * (i - 1) + g[2]) % g[3]]

SortFunctions == {"quicksort", "quicksort_serial"}

Frame(fn, lo, n) == [fn |-> fn, lo |-> lo, n |-> n]

InitSort ==
  /\ mon = addm
  /\ bsz = _block_size
  /\ fl = no_flag
  /\ outb = "In"
  /\ mem = [In |-> NoBuffer, Out |-> NoBuffer,
            Fl |-> NoBuffer, Sums |-> NoBuffer]
  /\ task = {}
  /\ sortArg \in [lt : Comparisons, ty : SortTypes]
  /\ \/ \E n \in 0..MaxSortLen, g \in SortPatterns : In0 = SortGen(n, g)
     \/ \E g \in LargePatterns : In0 = SortGen(quicksort_cutoff, g)
  /\ A = In0
  /\ \E fn \in SortFunctions : stack = <<Frame(fn, 0, Len(In0))>>
  /\ reg = <<>>
  /\ pc = "sort"
  /\ ret = NoRet

\* the run ends in undefined behaviour or in a failed assertion
SortAbort(outcome) ==
  /\ pc' = "done"
  /\ ret' = outcome
  /\ stack' = <<>>
  /\ reg' = <<>>
  /\ UNCHANGED A

\* split3(A, n, f) is entered: assert(n >= 5), then sort5 and the pivots
Split3Enter(lo, n) ==
  IF n < 5
    THEN SortAbort("assertion failed")
    ELSE LET b == split3_begin(A, lo, n, sortArg.lt)
         IN  /\ A' = b.a
             /\ reg' = b.st
             /\ UNCHANGED <<stack, pc, ret>>

\* quicksort(A, n, f) up to its call of quicksort_serial or of split3
QuicksortCall ==
  /\ pc = "sort"
  /\ reg = <<>>
  /\ stack # <<>>
  /\ Head(stack).fn = "quicksort"
  /\ LET top == Head(stack)
     IN  IF top.n < quicksort_cutoff
           THEN /\ stack' = <<Frame("quicksort_serial", top.lo, top.n)>>
                             \o Tail(stack)
                /\ UNCHANGED <<A, reg, pc, ret>>
           ELSE Split3Enter(top.lo, top.n)
  /\ UNCHANGED <<argVars, mem, task>>

\* quicksort_serial(A, n, f) at its loop condition: the base case sorts by
\* insertion and returns, otherwise split3 is entered
SerialCall ==
  /\ pc = "sort"
  /\ reg = <<>>
  /\ stack # <<>>
  /\ Head(stack).fn = "quicksort_serial"
  /\ LET top == Head(stack)
     IN  IF top.n < 0
           THEN SortAbort("undefined")
         ELSE IF base_case(sortArg.ty, top.n)
           THEN /\ A' = insertion_sort(A, top.lo, top.n, sortArg.lt)
                /\ stack' = Tail(stack)
                /\ pc' = IF Tail(stack) = <<>> THEN "done" ELSE "sort"
                /\ UNCHANGED <<reg, ret>>
         ELSE Split3Enter(top.lo, top.n)
  /\ UNCHANGED <<argVars, mem, task>>

\* split3 advances by one loop step
Split3Step ==
  /\ pc = "sort"
  /\ reg # <<>>
  /\ reg.pc # "swap"
  /\ LET s == split3_step(A, reg, sortArg.lt)
     IN  IF s.st.pc = "undefined"
           THEN SortAbort("undefined")
           ELSE /\ A' = s.a
                /\ reg' = s.st
                /\ UNCHANGED <<stack, pc, ret>>
  /\ UNCHANGED <<argVars, mem, task>>

\* split3 returns into quicksort_serial: the middle is sorted first unless
\* the pivots are equal, then the right part, then the loop goes on with
\* the left part
SerialRecurse ==
  /\ pc = "sort"
  /\ reg # <<>>
  /\ reg.pc = "swap"
  /\ Head(stack).fn = "quicksort_serial"
  /\ LET top == Head(stack)
         r == split3_end(A, reg)
         left == Frame("quicksort_serial", top.lo, r.L - top.lo)
         mid == Frame("quicksort_serial", r.L + 1, r.M - r.L - 1)
         right == Frame("quicksort_serial", r.M, top.lo + top.n - r.M)
     IN  IF ~r.defined
           THEN SortAbort("undefined")
           ELSE /\ A' = r.a
                /\ reg' = <<>>
                /\ stack' = (IF r.mid_eq THEN <<right, left>>
                                         ELSE <<mid, right, left>>)
                            \o Tail(stack)
                /\ UNCHANGED <<pc, ret>>
  /\ UNCHANGED <<argVars, mem, task>>

\* the orders in which a fork's tasks can be run
Orders(frames) ==
  {o \in [1..Len(frames) -> 1..Len(frames)] :
     \A i, j \in 1..Len(frames) : o[i] = o[j] => i = j}

\* split3 returns into quicksort: par_do3(left, mid, right), or
\* par_do(left, right) when the pivots are equal
ParallelFork ==
  /\ pc = "sort"
  /\ reg # <<>>
  /\ reg.pc = "swap"
  /\ Head(stack).fn = "quicksort"
  /\ LET top == Head(stack)
         r == split3_end(A, reg)
         left == Frame("quicksort", top.lo, r.L - top.lo)
         mid == Frame("quicksort", r.L + 1, r.M - r.L - 1)
         right == Frame("quicksort", r.M, top.lo + top.n - r.M)
         forked == IF r.mid_eq THEN <<left, right>>
                               ELSE <<left, mid, right>>
     IN  IF ~r.defined
           THEN SortAbort("undefined")
           ELSE /\ A' = r.a
                /\ reg' = <<>>
                /\ \E o \in Orders(forked) :
                     stack' = [i \in 1..Len(forked) |-> forked[o[i]]]
                              \o Tail(stack)
                /\ UNCHANGED <<pc, ret>>
  /\ UNCHANGED <<argVars, mem, task>>

NextSort ==
  \/ QuicksortCall
  \/ SerialCall
  \/ Split3Step
  \/ SerialRecurse
  \/ ParallelFork

SpecSort == InitSort /\ [][NextSort]_vars

\* how many elements of s are equal to x
Count(s, x) == Cardinality({i \in DOMAIN s : s[i] = x})

IsPermutation(s, t) ==
  /\ Len(s) = Len(t)
  /\ \A i \in DOMAIN t : Count(s, t[i]) = Count(t, t[i])

IsSorted(s, c) ==
  \A i \in DOMAIN s : \A j \in DOMAIN s : i < j => ~lt(c, s[j], s[i])

\* C10: quicksort and quicksort_serial return normally with A[0..n) sorted
\* by lt (no i < j with lt(A[j], A[i])) and a permutation of its original
\* contents, for every length, input pattern and strict weak order.
SortSortsInPlace ==
  pc = "done" =>
    /\ ret = NoRet
    /\ IsSorted(A, sortArg.lt)
    /\ IsPermutation(A, In0)

\* a sort that went through split3 has finished on an input with distinct
\* and with equivalent elements
SortSplitDone ==
  /\ pc = "done"
  /\ Len(A) >= 24
  /\ A # In0
  /\ \E i, j \in DOMAIN A : lt(sortArg.lt, A[i], A[j])
  /\ \E i, j \in DOMAIN A :
       i # j /\ ~lt(sortArg.lt, A[i], A[j]) /\ ~lt(sortArg.lt, A[j], A[i])


-----------------------------------------------------------------------------
(* The kernels called on a delayed sequence D = (first, last, f): buffer In *)
(* tabulates f on 0..last-1, In0 is what iterating D yields.               *)

MaxDelayedFirst == 2

MaxDelayedLen == 5

\* scan(In, m, fl): the pair (Out, total) it returns
scan(m, In, mo, f, bs) ==
  LET m1 == WithBuffer(m, "NewOut", NewSeq(size(In), DefaultT(mo)))
      sc == scan_(m1, In, make_slice(m1, "NewOut"), mo, f, bs)
  IN  [Out |-> Values(sc.m["NewOut"]), total |-> sc.r]

\* the sequence obtained by iterating D from begin() to end(): the iterator
\* starts at index first, *it is f(index), ++it adds one to index
materialize(m, D) == [i \in 1..size(D) |-> m[D.buf][D.s + i].v]

InitDelayed ==
  /\ mon \in {addm, concat}
  /\ bsz \in BlockSizes
  /\ fl = no_flag
  /\ outb = "Out"
  \* lengths of D: short ones, and one long enough for reduce to run in blocks
  /\ \E first \in 0..MaxDelayedFirst,
        n \in 0..MaxDelayedLen \cup {MaxReduceLen},
        a \in Codes, b \in Codes, c \in {0, 1} :
       LET table == Gen(first + n, a, b)
           D == delayed_sequence("In", first, first + n)
           m0 == [In |-> FromValues([i \in 1..(first + n) |->
                                       Elem(mon, table[i])]),
                  Out |-> NoBuffer, Sums |-> NoBuffer,
                  Fl |-> FromValues([i \in 1..n |-> (i + c) % 2])]
       IN  /\ mem = m0
           /\ In0 = materialize(m0, D)
  /\ pc = "call"
  /\ ret = NoRet
  /\ task = <<>>
  /\ SortIdle

\* the delayed sequence the kernels are called on
DelayedIn == delayed_sequence("In", Len(mem.In) - Len(In0), Len(mem.In))

\* the memory in which In owns the elements of D
Materialized == [mem EXCEPT !.In = FromValues(In0)]

DelayedReduce ==
  /\ pc = "call"
  /\ pc' = "reduce"
  /\ ret' = [delayed |-> reduce(mem, DelayedIn, mon, fl, bsz),
             owning |-> reduce(Materialized, make_slice(Materialized, "In"),
                               mon, fl, bsz)]
  /\ UNCHANGED <<argVars, sortVars, mem, task>>

DelayedScan ==
  /\ pc = "call"
  /\ Len(In0) <= MaxDelayedLen
  /\ pc' = "scan"
  /\ \E f \in {no_flag, fl_scan_inclusive} :
       ret' = [delayed |-> scan(mem, DelayedIn, mon, f, bsz),
               owning |-> scan(Materialized, make_slice(Materialized, "In"),
                               mon, f, bsz)]
  /\ UNCHANGED <<argVars, sortVars, mem, task>>

DelayedPack ==
  /\ pc = "call"
  /\ Len(In0) <= MaxDelayedLen
  /\ pc' = "pack"
  /\ ret' = [delayed |-> Values(pack(mem, DelayedIn, FlSlice, fl, bsz)),
             owning |-> Values(pack(Materialized,
                                    make_slice(Materialized, "In"),
                                    FlSlice, fl, bsz))]
  /\ UNCHANGED <<argVars, sortVars, mem, task>>

DelayedFilter ==
  /\ pc = "call"
  /\ Len(In0) <= MaxDelayedLen
  /\ pc' = "filter"
  /\ mon = addm
  /\ \E p \in Preds :
       ret' = [delayed |-> Values(filter(mem, DelayedIn, p, bsz)),
               owning |-> Values(filter(Materialized,
                                        make_slice(Materialized, "In"),
                                        p, bsz))]
  /\ UNCHANGED <<argVars, sortVars, mem, task>>

DelayedSplitTwo ==
  /\ pc = "call"
  /\ Len(In0) <= MaxDelayedLen
  /\ pc' = "split_two"
  /\ LET d == split_two(mem, DelayedIn, FlSlice, fl, bsz)
         o == split_two(Materialized, make_slice(Materialized, "In"),
                        FlSlice, fl, bsz)
     IN  ret' = [delayed |-> [Out |-> Values(d.Out), m |-> d.m],
                 owning |-> [Out |-> Values(o.Out), m |-> o.m]]
  /\ UNCHANGED <<argVars, sortVars, mem, task>>

SpecDelayed ==
  InitDelayed /\ [][\/ DelayedReduce
                    \/ DelayedScan
                    \/ DelayedPack
                    \/ DelayedFilter
                    \/ DelayedSplitTwo]_vars

\* C11 as claimed: a kernel called on a delayed sequence D returns what it
\* returns on the owning sequence obtained by iterating D, whatever first is.
DelayedComposition ==
  pc # "call" => ret.delayed = ret.owning

-----------------------------------------------------------------------------
(* reduce, scan and pack called twice on the same input: with              *)
(* fl_sequential and with the default flags.                                *)

InitFlags ==
  /\ mon \in Monoids
  /\ bsz \in BlockSizes
  /\ fl = fl_sequential
  /\ outb = "Out"
  \* lengths: short ones, and one long enough for reduce to run in blocks
  /\ \E n \in 0..MaxLen \cup {MaxReduceLen}, a \in Codes, b \in Codes :
       /\ In0 = [i \in 1..n |-> Elem(mon, Gen(n, a, b)[i])]
       /\ \E flags \in [1..Min(n, MaxLen) -> {0, 1}] :
            mem = [In |-> FromValues(In0), Out |-> NoBuffer,
                   Fl |-> FromValues(flags), Sums |-> NoBuffer]
  /\ pc = "call"
  /\ ret = NoRet
  /\ task = <<>>
  /\ SortIdle

FlagReduce ==
  /\ pc = "call"
  /\ pc' = "reduce"
  /\ ret' = [sequential |-> reduce(mem, InSlice, mon, fl, bsz),
             default |-> reduce(mem, InSlice, mon, no_flag, bsz)]
  /\ UNCHANGED <<argVars, sortVars, mem, task>>

FlagScan ==
  /\ pc = "call"
  /\ Len(In0) <= MaxLen
  /\ pc' = "scan"
  /\ \E f \in {no_flag, fl_scan_inclusive} :
       ret' = [sequential |-> scan(mem, InSlice, mon, fl + f, bsz),
               default |-> scan(mem, InSlice, mon, f, bsz)]
  /\ UNCHANGED <<argVars, sortVars, mem, task>>

FlagPack ==
  /\ pc = "call"
  /\ Len(In0) <= MaxLen
  /\ pc' = "pack"
  /\ ret' = [sequential |-> pack(mem, InSlice, FlSlice, fl, bsz),
             default |-> pack(mem, InSlice, FlSlice, no_flag, bsz)]
  /\ UNCHANGED <<argVars, sortVars, mem, task>>

SpecFlags ==
  InitFlags /\ [][\/ FlagReduce
                  \/ FlagScan
                  \/ FlagPack]_vars

\* C12: reduce, scan (exclusive and inclusive) and pack (on boolean flags)
\* called with fl_sequential return the same output and total as the same
\* call with the default flags, whatever the number of blocks.
FlagEquivalence ==
  pc # "call" => ret.sequential = ret.default

\* an exclusive scan over more than two blocks of a non-commutative monoid
\* has been run both ways
FlagScanBlocked ==
  /\ pc = "scan"
  /\ num_blocks(Len(In0), bsz) > 2
  /\ mon = concat
  /\ In0[1] # In0[2]
  /\ ret.default.Out[1] = <<>>
  /\ ret.default.total = In0[1] \o In0[2] \o In0[3]

-----------------------------------------------------------------------------
(* reduce and scan under every schedule of their block tasks.              *)

SpecSchedule == (InitReduce \/ InitScan) /\ [][NextReduce \/ NextScan]_vars

\* C13: whatever the order in which the block tasks of reduce and scan run
\* and complete, the Sums array, the output and the total are those of the
\* run that executes the blocks one after the other in index order, for
\* commutative and non-commutative monoids alike.
ScheduleIndependence ==
  LET m0 == [In |-> FromValues(In0), Out |-> NewSeq(Len(In0), DefaultT(mon))]
      In == make_slice(m0, "In")
      InOrder(block_size) == FromValues(BlockSums(m0, In, mon, block_size))
      sm == [Sums |-> InOrder(bsz)]
      S == make_slice(sm, "Sums")
  IN  /\ (pc = "reduce_blocks" /\ task = {}) =>
           mem.Sums = InOrder(reduce_block_size(Len(In0), bsz))
      /\ (pc = "done" /\ mem.Out = NoBuffer) =>
           ret = reduce(m0, In, mon, fl, bsz)
      /\ (pc = "up" /\ \A i \in DOMAIN task : task[i].j = ScanBlockSize(i)) =>
           mem.Sums = sm.Sums
      /\ pc = "down" =>
           Values(mem.Sums) =
             Values(scan_serial(sm, S, S, mon, mon.identity, no_flag).m.Sums)
      /\ (pc = "done" /\ Len(mem.Out) = Len(In0)) =>
           /\ Values(mem[outb]) = ScanOfOriginal(In0).Out
           /\ ret = ScanOfOriginal(In0).total

\* a blocked scan over a non-commutative monoid whose last block task ran
\* to completion before the first one started
ScheduleLastBlockFirst ==
  /\ pc = "down"
  /\ mon = concat
  /\ outb = "Out"
  /\ Len(mem.Sums) >= 3
  /\ task[0].j = 0
  /\ task[Len(mem.Sums) - 1].j = ScanBlockSize(Len(mem.Sums) - 1)
  /\ mem.Out[Len(In0)].w = 1

-----------------------------------------------------------------------------
(* The parallel regions: the two sliced_for of scan_, pack, filter,        *)
(* split_two and split_three with their block tasks run in any order, and  *)
(* the forks of quicksort.  ret holds the kernel, filter's predicate and   *)
(* the totals m (m0) and m1 of the scanned Sums.  scan_inplace(Sums) is     *)
(* scan_ again: over more than two blocks it runs two sliced_for of its own *)
(* (phases "scan_up" and "scan_down") on the buffer ret.scanning, with its  *)
(* own block sums in buffer SumsOfSums.                                     *)

\* what block task i of a sliced_for does to memory m: the body of the first
\* or of the second sliced_for of kernel r.kernel, or of one of the two
\* sliced_for of the scan_ that scan_inplace(Sums) runs
RegionBody(r, phase, m, i) ==
  LET In == make_slice(m, "In")
      Fl == make_slice(m, "Fl")
      Out == make_slice(m, IF r.kernel = "scan_inplace" THEN "In" ELSE "Out")
      Sums == make_slice(m, "Sums")
      n == size(In)
      l == num_blocks(n, bsz)
      s == BlockStart(i, bsz)
      e == BlockEnd(i, n, bsz)
      S == make_slice(m, r.scanning)
      SS == make_slice(m, "SumsOfSums")
      Sb == cut(S, BlockStart(i, bsz), BlockEnd(i, size(S), bsz))
  IN  IF phase = "scan_up"
        THEN Write(m, SS, i, reduce_serial(m, Sb, addm))
      ELSE IF phase = "scan_down"
        THEN scan_serial(m, Sb, Sb, addm, Read(m, SS, i), no_flag).m
      ELSE IF phase = "first"
        THEN CASE r.kernel \in {"scan_", "scan_inplace"} ->
                    Write(m, Sums, i, reduce_serial(m, cut(In, s, e), mon))
               [] r.kernel = "pack" ->
                    Write(m, Sums, i, sum_bools_serial(m, cut(Fl, s, e)))
               [] r.kernel = "filter" ->
                    LET m1 == [m EXCEPT !.Fl =
                                 [j \in 1..n |->
                                    IF j - 1 \in s..(e - 1)
                                      THEN Cell(FilterFlags(m, In, r.p)[j],
                                                m.Fl[j].w + 1)
                                      ELSE m.Fl[j]]]
                    IN  Write(m1, Sums, i,
                              sum_bools_serial(m1, cut(make_slice(m1, "Fl"),
                                                       s, e)))
               [] r.kernel = "split_two" ->
                    Write(m, Sums, i, FalseSums(m, Fl, n, bsz)[i + 1])
               [] r.kernel = "split_three" ->
                    Write(Write(m, Sums, i, ClassSums(m, Fl, n, bsz, 0)[i + 1]),
                          make_slice(m, "Sums1"), i,
                          ClassSums(m, Fl, n, bsz, 1)[i + 1])
        ELSE CASE r.kernel \in {"scan_", "scan_inplace"} ->
                    scan_serial(m, cut(In, s, e), cut(Out, s, e), mon,
                                Read(m, Sums, i), fl).m
               [] r.kernel \in {"pack", "filter"} ->
                    pack_serial_at(m, cut(In, s, e), cut(Fl, s, e),
                                   cut(Out, Read(m, Sums, i),
                                       IF i = l - 1 THEN r.m
                                                    ELSE Read(m, Sums, i + 1))).m
               [] r.kernel = "split_two" ->
                    split_two_block(m, In, Fl, Out, s, e, Read(m, Sums, i),
                                    s + (r.m - Read(m, Sums, i)))
               [] r.kernel = "split_three" ->
                    LET Sums1 == make_slice(m, "Sums1")
                    IN  split_three_block(
                          m, In, Fl, Out, s, e, Read(m, Sums, i),
                          r.m + Read(m, Sums1, i),
                          r.m + r.m1 + (s - Read(m, Sums, i) - Read(m, Sums1, i)))

\* a kernel is called and reaches its first sliced_for: Sums (and Fl for
\* filter) are allocated and the block tasks forked.  The scans run in
\* blocks only for l > 2 and pack for l # 1; pack and split_two take flags
\* of type bool, filter and the scans take none.
RegionFork ==
  /\ pc = "call"
  /\ LET n == Len(In0)
         l == num_blocks(n, bsz)
     IN  \E k \in {"scan_", "scan_inplace", "pack", "filter", "split_two",
                   "split_three"} :
           \E p \in (IF k = "filter" THEN Preds ELSE {"even"}) :
             /\ k \in {"scan_", "scan_inplace"} => l > 2
             /\ k = "pack" => l # 1
             /\ k \in {"pack", "split_two"} => IsBoolSeq(Fl0)
             /\ k \in {"scan_", "scan_inplace", "filter"} =>
                  \A j \in 1..n : Fl0[j] = 0
             /\ ret' = [kernel |-> k, p |-> p, m |-> 0, m1 |-> 0,
                        scanning |-> "Sums"]
             /\ mem' = [b \in {"In", "Fl", "Out", "Sums", "Sums1",
                                "SumsOfSums"} |->
                          CASE b = "Sums" -> NewSeq(l, 0)
                            [] b = "SumsOfSums" -> NoBuffer
                            [] b = "Sums1" ->
                                 IF k = "split_three" THEN NewSeq(l, 0)
                                                      ELSE NoBuffer
                            [] b = "Fl" ->
                                 IF k = "filter" THEN NewSeq(n, 0) ELSE mem.Fl
                            [] b = "Out" ->
                                 IF k \in {"scan_", "split_three"}
                                   THEN NewSeq(n, 0) ELSE NoBuffer
                            [] OTHER -> mem[b]]
             /\ task' = 0..(l - 1)
  /\ pc' = "first"
  /\ UNCHANGED <<argVars, sortVars>>

RegionTask(i) ==
  /\ pc \in {"first", "scan_up", "scan_down", "second"}
  /\ i \in task
  /\ mem' = RegionBody(ret, pc, mem, i)
  /\ task' = task \ {i}
  /\ UNCHANGED <<argVars, sortVars, pc, ret>>

\* the join of a sliced_for, and what the kernel does up to its next fork
\* or its return.  After the first sliced_for of scan_, Sums is scanned
\* serially and the second one forks.  After the first sliced_for of the
\* other kernels, scan_inplace(Sums) is called (twice by split_three, on
\* Sums0 and then on Sums1): over at most two blocks it is a scan_serial,
\* otherwise it allocates its block sums and forks its first sliced_for,
\* whose join scans these and forks its second one; after the last
\* scan_inplace Out is allocated where the kernel owns it and the second
\* sliced_for of the kernel forks.
RegionJoin ==
  /\ pc \in {"first", "scan_up", "scan_down", "second"}
  /\ task = {}
  /\ LET l == Len(mem.Sums)
         inner == num_blocks(l, bsz)
         \* sequence<T> Sums(l) and the fork of the first sliced_for of the
         \* scan_ called on buffer b of memory m
         ScanFork(m, b) ==
           /\ mem' = [m EXCEPT !.SumsOfSums = NewSeq(inner, 0)]
           /\ ret' = [ret EXCEPT !.scanning = b]
           /\ task' = 0..(inner - 1)
           /\ pc' = "scan_up"
         \* the kernel goes on after its scan_inplace calls, m0 and m1 being
         \* the totals they returned
         Second(m, m0, m1) ==
           /\ ret' = [ret EXCEPT !.m = m0, !.m1 = m1]
           /\ mem' = [m EXCEPT !.Out =
                        CASE ret.kernel \in {"pack", "filter"} ->
                               Uninitialized(m0)
                          [] ret.kernel = "split_two" ->
                               Uninitialized(Len(In0))
                          [] OTHER -> @]
           /\ task' = 0..(l - 1)
           /\ pc' = "second"
     IN  CASE pc = "first" /\ ret.kernel \in {"scan_", "scan_inplace"} ->
                LET S == make_slice(mem, "Sums")
                    sc == scan_serial(mem, S, S, mon, mon.identity, no_flag)
                IN  Second(sc.m, sc.r, 0)
           [] pc = "first" /\ ret.kernel \notin {"scan_", "scan_inplace"} ->
                IF inner <= 2
                  THEN LET sc == scan_inplace(mem, make_slice(mem, "Sums"),
                                              addm, no_flag, bsz)
                           sc1 == IF ret.kernel = "split_three"
                                    THEN scan_inplace(
                                           sc.m, make_slice(sc.m, "Sums1"),
                                           addm, no_flag, bsz)
                                    ELSE [m |-> sc.m, r |-> 0]
                       IN  Second(sc1.m, sc.r, sc1.r)
                  ELSE ScanFork(mem, "Sums")
           [] pc = "scan_up" ->
                LET SS == make_slice(mem, "SumsOfSums")
                    sc == scan_serial(mem, SS, SS, addm, addm.identity, no_flag)
                IN  /\ mem' = sc.m
                    /\ ret' = IF ret.scanning = "Sums"
                                THEN [ret EXCEPT !.m = sc.r]
                                ELSE [ret EXCEPT !.m1 = sc.r]
                    /\ task' = 0..(inner - 1)
                    /\ pc' = "scan_down"
           [] pc = "scan_down" ->
                IF ret.kernel = "split_three" /\ ret.scanning = "Sums"
                  THEN ScanFork(mem, "Sums1")
                  ELSE Second(mem, ret.m, ret.m1)
           [] pc = "second" ->
                /\ pc' = "done"
                /\ UNCHANGED <<mem, ret, task>>
  /\ UNCHANGED <<argVars, sortVars>>

SpecRegion ==
  /\ Init \/ InitSort
  /\ [][\/ RegionFork
        \/ \E i \in 0..MaxPackLen : RegionTask(i)
        \/ RegionJoin
        \/ NextSort]_vars

\* C15: sliced_for(n, B, body) runs body(i, s, e) exactly once for each i in
\* [0, ceil(n / B)), with s = i * B and e = min(s + B, n); the ranges [s, e)
\* are non-empty, pairwise disjoint and cover exactly [0, n); for n = 0 no
\* body runs.  Checked on the sliced_for of reduce (B = reduce_block_size)
\* and on the two sliced_for of scan_ (B = the block size).
SlicedForPartition ==
  LET n == Len(In0)
      B == IF pc = "reduce_blocks" THEN reduce_block_size(n, bsz) ELSE bsz
      l == num_blocks(n, B)
      s(i) == BlockStart(i, B)
      e(i) == BlockEnd(i, n, B)
      written == IF outb = "In" THEN 1 ELSE 0
  IN  /\ pc \in {"reduce_blocks", "up", "down"} =>
           /\ n > 0
           /\ B >= 1
           /\ (l - 1) * B < n
           /\ n <= l * B
           /\ Len(mem.Sums) = l
           /\ \A i \in 0..(l - 1) :
                /\ s(i) = i * B
                /\ e(i) = (IF s(i) + B < n THEN s(i) + B ELSE n)
                /\ s(i) < e(i)
                /\ \A j \in 0..(l - 1) : i < j => e(i) <= s(j)
           /\ UNION {s(i)..(e(i) - 1) : i \in 0..(l - 1)} = 0..(n - 1)
      /\ pc = "reduce_blocks" =>
           /\ task \subseteq 0..(l - 1)
           /\ \A i \in 0..(l - 1) :
                mem.Sums[i + 1].w = (IF i \in task THEN 0 ELSE 1)
      /\ pc \in {"up", "down"} => DOMAIN task = 0..(l - 1)
      /\ pc = "up" =>
           \A i \in 0..(l - 1) :
             mem.Sums[i + 1].w = (IF task[i].j = e(i) - s(i) THEN 1 ELSE 0)
      /\ pc = "down" =>
           \A i \in 0..(l - 1) : \A k \in 0..(e(i) - s(i) - 1) :
             mem[outb][s(i) + k + 1].w =
               written + (IF k < task[i].j THEN 1 ELSE 0)
      /\ (pc = "done" /\ n = 0) => mem.Sums = NoBuffer

\* the up-sweep of a scan_ over three blocks, the last one shorter than the
\* others, has run the body of every block
SlicedForAllInvoked ==
  /\ pc = "up"
  /\ bsz = 2
  /\ Len(In0) % bsz = 1
  /\ Len(mem.Sums) = 3
  /\ \A i \in DOMAIN task : task[i].j = ScanBlockSize(i)

\* C14: in every parallel region of scan_, pack, filter, split_two and
\* split_three, two block tasks that can run concurrently write disjoint
\* sets of elements, and what a task writes does not depend on the elements
\* the other one writes; in quicksort the ranges of the calls still to run
\* lie inside the array and are pairwise disjoint, and a running call
\* changes no element outside its own range.
RaceFreedom ==
  /\ [](pc \in {"first", "scan_up", "scan_down", "second"} =>
         LET Cells == UNION {{<<b, k>> : k \in 1..Len(mem[b])} : b \in DOMAIN mem}
             Written(m0, m1) ==
               {c \in Cells : m1[c[1]][c[2]].w # m0[c[1]][c[2]].w}
             Changed(W) ==
               [b \in DOMAIN mem |->
                  [k \in 1..Len(mem[b]) |->
                     IF <<b, k>> \in W
                       THEN Cell(mem[b][k].v + 1, mem[b][k].w)
                       ELSE mem[b][k]]]
         IN  \A i \in task, j \in task :
               i # j =>
                 LET mi == RegionBody(ret, pc, mem, i)
                     mj == RegionBody(ret, pc, mem, j)
                     Wi == Written(mem, mi)
                     Wj == Written(mem, mj)
                     other == RegionBody(ret, pc, Changed(Wi), j)
                 IN  /\ Wi \cap Wj = {}
                     /\ Written(Changed(Wi), other) = Wj
                     /\ \A c \in Wj : other[c[1]][c[2]] = mj[c[1]][c[2]])
  /\ [](pc = "sort" =>
         /\ \A i \in DOMAIN stack :
              /\ 0 <= stack[i].lo
              /\ 0 <= stack[i].n
              /\ stack[i].lo + stack[i].n <= Len(A)
         /\ \A i \in DOMAIN stack, j \in DOMAIN stack :
              i < j => \/ stack[i].lo + stack[i].n <= stack[j].lo
                       \/ stack[j].lo + stack[j].n <= stack[i].lo)
  /\ [][(pc = "sort" /\ A' # A) =>
          LET lo == Head(stack).lo
              hi == lo + Head(stack).n
          IN  /\ SubSeq(A', 1, lo) = SubSeq(A, 1, lo)
              /\ SubSeq(A', hi + 1, Len(A)) = SubSeq(A, hi + 1, Len(A))]_vars

\* split_three is in its second sliced_for on flags of all three classes:
\* one block task has written its elements, two others are still to run
RegionTwoPending ==
  /\ pc = "second"
  /\ ret.kernel = "split_three"
  /\ {Fl0[j] : j \in 1..Len(Fl0)} = {0, 1, 2}
  /\ Cardinality(task) = 2
  /\ \E k \in 1..Len(mem.Out) : mem.Out[k].w = 1

-----------------------------------------------------------------------------
(* Termination: quicksort, quicksort_serial and reduce.                    *)

SpecTerminate == (InitSort \/ InitReduce) /\ [][NextSort \/ NextReduce]_vars

\* a bound on the number of steps the run can still take
StepsLeft ==
  LET \* steps a call of length n still to be started can take at most
      Call(f) == 4 * f.n * f.n + (IF f.fn = "quicksort" THEN 4 ELSE 3)
      Rest(s) == IF s = <<>> THEN 0
                 ELSE LET w == [i \in 1..Len(s) |-> Call(s[i])]
                      IN  LeftFold(w, addm)
      \* steps left in the split3 in progress
      Split(r) ==
        CASE r.pc = "skipL" ->
               2 * (r.lo + r.n - r.L) + 2 * (r.R - r.L + 1) + 3
          [] r.pc = "skipR" -> 2 * (r.R - r.L + 1) + 2
          [] r.pc \in {"loop", "innerR"} -> 2 * (r.R - r.M + 1) + 1
          [] r.pc = "swap" -> 0
  IN  CASE pc = "reduce" -> Len(In0) + 3
        [] pc = "reduce_blocks" -> Cardinality(task) + 1
        [] pc = "sort" ->
             IF reg = <<>> THEN Rest(stack)
             ELSE Rest(Tail(stack)) + 13 + Split(reg)
                  + 4 * (reg.n - 1) * (reg.n - 1)
        [] pc = "done" -> 0

\* C16: quicksort, quicksort_serial and reduce terminate: StepsLeft is a
\* natural number that decreases at every step, and a step is possible
\* until the call has returned.  The calls and the loop range
\* that follow a split3 are strictly shorter than the range that was split,
\* and the recursive reduce is called on a sequence strictly shorter than
\* its caller's.
Termination ==
  /\ [][StepsLeft' < StepsLeft]_vars
  /\ [](StepsLeft >= 0)
  /\ [](pc = "sort" =>
         /\ stack # <<>>
         /\ Head(stack).fn \in SortFunctions
         /\ reg # <<>> =>
              reg.pc \in {"skipL", "skipR", "loop", "innerR", "swap"})
  /\ [][(pc = "sort" /\ reg # <<>> /\ reg' = <<>> /\ pc' = "sort") =>
          \A i \in 1..(Len(stack') - Len(stack) + 1) :
            /\ 0 <= stack'[i].n
            /\ stack'[i].n < Head(stack).n]_vars
  /\ [](pc = "reduce_blocks" =>
         /\ Len(mem.Sums) < Len(In0)
         /\ Len(mem.Sums) >= 2)

\* quicksort_serial has returned from an input of equal elements that was
\* long enough to go through split3
SortAllEqualDone ==
  /\ pc = "done"
  /\ Len(A) = MaxSortLen
  /\ ret = NoRet
  /\ \A i \in DOMAIN A : A[i] = A[1]

-----------------------------------------------------------------------------
(* split3 called once on A[0..n): every array of length 5..MaxSplitLen     *)
(* over three values, and the sort patterns at twice that length, where    *)
(* the samples of sort5 are two apart.                                      *)

MaxSplitLen == 7

InitSplit3 ==
  /\ mon = addm
  /\ bsz = _block_size
  /\ fl = no_flag
  /\ outb = "In"
  /\ mem = [In |-> NoBuffer, Out |-> NoBuffer,
            Fl |-> NoBuffer, Sums |-> NoBuffer]
  /\ task = {}
  /\ sortArg \in [lt : Comparisons, ty : SortTypes]
  /\ \/ \E n \in 5..MaxSplitLen : In0 \in [1..n -> Codes]
     \/ \E g \in SortPatterns : In0 = SortGen(2 * MaxSplitLen, g)
  /\ A = In0
  /\ stack = <<>>
  /\ reg = <<>>
  /\ pc = "sort"
  /\ ret = NoRet

Split3Call ==
  /\ pc = "sort"
  /\ reg = <<>>
  /\ Split3Enter(0, Len(A))
  /\ UNCHANGED <<argVars, mem, task>>

\* the final swaps of split3 and its return of (L, M, pivots_equal)
Split3Return ==
  /\ pc = "sort"
  /\ reg # <<>>
  /\ reg.pc = "swap"
  /\ LET r == split3_end(A, reg)
     IN  IF ~r.defined
           THEN SortAbort("undefined")
           ELSE /\ A' = r.a
                /\ reg' = <<>>
                /\ ret' = [L |-> r.L, M |-> r.M, eq |-> r.mid_eq]
                /\ pc' = "done"
                /\ UNCHANGED stack
  /\ UNCHANGED <<argVars, mem, task>>

SpecSplit3 ==
  InitSplit3 /\ [][Split3Call \/ Split3Step \/ Split3Return]_vars

\* C17: split3 returns (L, M, eq) with A a permutation of its input that
\* reads [<p1][p1][p1..p2][p2][>p2]: A[0..L) is lt p1, A[L] is p1,
\* A[L+1..M-1) is neither lt p1 nor greater than p2, A[M-1] is p2, A[M..n)
\* is greater than p2, and L + 2 <= M <= n.  p1 and p2 are the pivots that
\* split3 moves to A[0] and A[1] after sort5.
Split3Postcondition ==
  pc = "done" =>
    LET c == sortArg.lt
        n == Len(A)
        entry == split3_begin(In0, 0, n, c).a
        p1 == entry[1]
        p2 == entry[2]
    IN  /\ ret \in [L : 0..n, M : 0..n, eq : BOOLEAN]
        /\ IsPermutation(A, In0)
        /\ ret.L + 2 <= ret.M
        /\ ret.M <= n
        /\ \A k \in 0..(ret.L - 1) : lt(c, A[k + 1], p1)
        /\ A[ret.L + 1] = p1
        /\ \A k \in (ret.L + 1)..(ret.M - 2) :
             ~lt(c, A[k + 1], p1) /\ ~lt(c, p2, A[k + 1])
        /\ A[ret.M] = p2
        /\ \A k \in ret.M..(n - 1) : lt(c, p2, A[k + 1])
        /\ ret.eq = ~lt(c, p1, p2)

\* split3 has returned with all three parts non-empty and distinct pivots
Split3ThreeParts ==
  /\ pc = "done"
  /\ ret \in [L : 1..Len(A), M : 0..(Len(A) - 1), eq : {FALSE}]
  /\ ret.L + 2 < ret.M

\* C18: while split3 runs, A[0] and A[1] hold the pivots p1 and p2 chosen at
\* entry.  At every evaluation of M <= R: 2 <= L <= M <= R + 1 <= n, A[2..L)
\* is lt p1, A[L..M) is neither lt p1 nor greater than p2, A(R..n) is
\* greater than p2.  Every iterator that the next step dereferences (L and
\* R in the skip loops, M, L and R in the loop body, L, L + 1 and R in the
\* final swaps) points into A[0..n).
Split3LoopInvariant ==
  reg # <<>> =>
    LET c == sortArg.lt
        n == reg.n
        entry == split3_begin(In0, 0, n, c).a
        p1 == A[1]
        p2 == A[2]
        L == reg.L
        M == reg.M
        R == reg.R
    IN  /\ p1 = entry[1]
        /\ p2 = entry[2]
        /\ reg.pc = "loop" =>
             /\ 2 <= L
             /\ L <= M
             /\ M <= R + 1
             /\ R + 1 <= n
             /\ \A k \in 2..(L - 1) : lt(c, A[k + 1], p1)
             /\ \A k \in L..(M - 1) :
                  ~lt(c, A[k + 1], p1) /\ ~lt(c, p2, A[k + 1])
             /\ \A k \in (R + 1)..(n - 1) : lt(c, p2, A[k + 1])
        /\ reg.pc = "skipL" => InRange(reg, L)
        /\ reg.pc \in {"skipR", "innerR"} => InRange(reg, R)
        /\ (reg.pc = "loop" /\ M <= R) =>
             InRange(reg, L) /\ InRange(reg, M) /\ InRange(reg, R)
        /\ reg.pc = "swap" =>
             InRange(reg, L - 2) /\ InRange(reg, L - 1) /\ InRange(reg, R)

\* the loop condition is evaluated with elements below p1, between the
\* pivots and above p2 already in place and elements still to process
Split3MidLoop ==
  /\ reg # <<>>
  /\ reg.pc = "loop"
  /\ 2 < reg.L
  /\ reg.L < reg.M
  /\ reg.M < reg.R
  /\ reg.R < reg.n - 1

\* C19: whenever split3 returns with the equal-pivots flag set, every element
\* of the middle range A(L..M) is equivalent under lt to the pivot at A[L]
\* (neither lt(x, p1) nor lt(p1, x)); quicksort and quicksort_serial, which
\* then do not sort the middle range, return normally with A sorted.
EqualPivotsMiddle ==
  /\ (pc = "sort" /\ reg # <<>> /\ reg.pc = "swap") =>
       LET c == sortArg.lt
           r == split3_end(A, reg)
       IN  /\ r.defined
           /\ r.mid_eq =>
                \A k \in (r.L + 1)..(r.M - 1) :
                  /\ ~lt(c, r.a[k + 1], r.a[r.L + 1])
                  /\ ~lt(c, r.a[r.L + 1], r.a[k + 1])
  /\ pc = "done" => ret = NoRet /\ IsSorted(A, sortArg.lt)

\* split3 returns with the flag set, distinct values in the middle range
\* and a part beside it that is still to be sorted
EqualPivotsReturn ==
  /\ pc = "sort"
  /\ reg # <<>>
  /\ reg.pc = "swap"
  /\ LET r == split3_end(A, reg)
     IN  /\ r.defined
         /\ r.mid_eq
         /\ \E i, j \in (r.L + 1)..(r.M - 1) : r.a[i + 1] # r.a[j + 1]
         /\ r.L > reg.lo \/ r.M < reg.lo + reg.n

\* C20: every call of split3 made by quicksort or quicksort_serial is on a
\* range of n >= 5 elements: assert(n >= 5) never fails, and the sample
\* positions m, 2m, ..., 5m of sort5 with m = n / 6 are inside the range.
Split3RangeAtLeastFive ==
  /\ (pc = "sort" /\ reg = <<>> /\ stack # <<>>) =>
       LET top == Head(stack)
           n == top.n
           m == n \div 6
           calls_split3 ==
             IF top.fn = "quicksort"
               THEN n >= quicksort_cutoff
               ELSE n >= 0 /\ ~base_case(sortArg.ty, n)
       IN  calls_split3 =>
             /\ n >= 5
             /\ \A l \in 0..4 : 0 <= m * (l + 1) /\ m * (l + 1) < n
  /\ reg # <<>> => reg.n >= 5
  /\ pc = "done" => ret # "assertion failed"

\* split3 has been entered by a recursive call on a range one element
\* above the base case
Split3SmallestRange ==
  /\ pc = "sort"
  /\ reg # <<>>
  /\ reg.lo > 0
  /\ ~base_case(sortArg.ty, reg.n)
  /\ base_case(sortArg.ty, reg.n - 1)

-----------------------------------------------------------------------------
(* base_case(x, n) called once, x being an iterator of some type.           *)

MaxBaseLen == 30

InitBaseCase ==
  /\ mon = addm
  /\ bsz = _block_size
  /\ fl = no_flag
  /\ outb = "In"
  /\ mem = [In |-> NoBuffer, Out |-> NoBuffer,
            Fl |-> NoBuffer, Sums |-> NoBuffer]
  /\ task = {}
  /\ In0 = <<>>
  /\ A = <<>>
  /\ reg = <<>>
  \* the iterator is a raw pointer (8 bytes) or a class of two words, such
  \* as delayed_sequence<T>::iterator (16 bytes); the element is a pointer
  \* (8 bytes) or a value of 1 to 32 bytes
  /\ \E it \in {8, 16} :
       \/ \E sz \in {1, 4, 8, 16, 32} :
            sortArg = [lt |-> "less",
                       ty |-> [value_is_pointer |-> FALSE, sizeof_value |-> sz,
                               sizeof_iterator |-> it]]
       \/ sortArg = [lt |-> "less",
                     ty |-> [value_is_pointer |-> TRUE, sizeof_value |-> 8,
                             sizeof_iterator |-> it]]
  /\ \E n \in 0..MaxBaseLen : stack = <<Frame("base_case", 0, n)>>
  /\ pc = "call"
  /\ ret = NoRet

BaseCaseCall ==
  /\ pc = "call"
  /\ pc' = "done"
  /\ ret' = base_case(sortArg.ty, Head(stack).n)
  /\ UNCHANGED <<argVars, sortVars, mem, task>>

SpecBaseCase == InitBaseCase /\ [][BaseCaseCall]_vars

\* C21 as claimed: base_case(x, n) is n < 16 when the element type is a
\* pointer or larger than 8 bytes and n < 24 otherwise, whatever the type of
\* the iterator x.
BaseCaseByElementSize ==
  pc = "done" =>
    LET ty == sortArg.ty
        n == Head(stack).n
    IN  ret = IF ty.value_is_pointer \/ ty.sizeof_value > 8
                THEN n < 16
                ELSE n < 24

-----------------------------------------------------------------------------
(* One operator of delayed_sequence<T>::iterator called on an iterator it   *)
(* of a delayed sequence (first, last, f): reg is it, ret what the call     *)
(* returned.  An index is a size_t: a negative number k stands for the      *)
(* value 2^64 + k that a subtraction below zero wraps around to.            *)

InitIterator ==
  /\ mon = addm
  /\ bsz = _block_size
  /\ fl = no_flag
  /\ outb = "In"
  /\ mem = [In |-> NoBuffer, Out |-> NoBuffer,
            Fl |-> NoBuffer, Sums |-> NoBuffer]
  /\ task = {}
  /\ In0 = <<>>
  /\ sortArg = <<>>
  /\ A = <<>>
  /\ stack = <<>>
  /\ \E first \in 0..MaxDelayedFirst, n \in 0..MaxDelayedLen :
       \E index \in first..(first + n) :
         reg = [first |-> first, last |-> first + n, index |-> index]
  /\ pc = "call"
  /\ ret = NoRet

\* iterator& operator++(): assert, index++, return *this
PreIncrement ==
  /\ pc = "call"
  /\ pc' = "done"
  /\ IF reg.index < reg.last
       THEN /\ reg' = [reg EXCEPT !.index = reg.index + 1]
            /\ ret' = [op |-> "++it", failed |-> FALSE, before |-> reg.index,
                       returned |-> reg.index + 1]
       ELSE /\ reg' = reg
            /\ ret' = [op |-> "++it", failed |-> TRUE, before |-> reg.index,
                       returned |-> reg.index]
  /\ UNCHANGED <<argVars, mem, task, A, stack>>

\* iterator operator++(int) const: assert, return iterator(parent, index+1)
PostIncrement ==
  /\ pc = "call"
  /\ pc' = "done"
  /\ reg' = reg
  /\ IF reg.index < reg.last
       THEN ret' = [op |-> "it++", failed |-> FALSE, before |-> reg.index,
                    returned |-> reg.index + 1]
       ELSE ret' = [op |-> "it++", failed |-> TRUE, before |-> reg.index,
                    returned |-> reg.index]
  /\ UNCHANGED <<argVars, mem, task, A, stack>>

\* iterator& operator--(): assert, index--, return *this
PreDecrement ==
  /\ pc = "call"
  /\ pc' = "done"
  /\ IF reg.index > reg.first
       THEN /\ reg' = [reg EXCEPT !.index = reg.index - 1]
            /\ ret' = [op |-> "--it", failed |-> FALSE, before |-> reg.index,
                       returned |-> reg.index - 1]
       ELSE /\ reg' = reg
            /\ ret' = [op |-> "--it", failed |-> TRUE, before |-> reg.index,
                       returned |-> reg.index]
  /\ UNCHANGED <<argVars, mem, task, A, stack>>

\* iterator operator--(int) const: assert, return iterator(parent, index-1)
PostDecrement ==
  /\ pc = "call"
  /\ pc' = "done"
  /\ reg' = reg
  /\ IF reg.index > reg.first
       THEN ret' = [op |-> "it--", failed |-> FALSE, before |-> reg.index,
                    returned |-> reg.index - 1]
       ELSE ret' = [op |-> "it--", failed |-> TRUE, before |-> reg.index,
                    returned |-> reg.index]
  /\ UNCHANGED <<argVars, mem, task, A, stack>>

\* iterator& operator+=(size_t delta): assert, index += delta, return *this
PlusAssign ==
  /\ pc = "call"
  /\ pc' = "done"
  /\ \E delta \in 0..MaxDelayedLen :
       IF reg.index + delta <= reg.last
         THEN /\ reg' = [reg EXCEPT !.index = reg.index + delta]
              /\ ret' = [op |-> "it+=", failed |-> FALSE, before |-> reg.index,
                         returned |-> reg.index + delta]
         ELSE /\ reg' = reg
              /\ ret' = [op |-> "it+=", failed |-> TRUE, before |-> reg.index,
                         returned |-> reg.index]
  /\ UNCHANGED <<argVars, mem, task, A, stack>>

\* iterator& operator-=(size_t delta): assert, index -= delta, return *this.
\* index - delta is computed in size_t: below zero it wraps around to a
\* value that is >= first, and the assertion holds
MinusAssign ==
  /\ pc = "call"
  /\ pc' = "done"
  /\ \E delta \in 0..MaxDelayedLen :
       LET d == reg.index - delta
       IN  IF d < 0 \/ d >= reg.first
             THEN /\ reg' = [reg EXCEPT !.index = d]
                  /\ ret' = [op |-> "it-=", failed |-> FALSE,
                             before |-> reg.index, returned |-> d]
             ELSE /\ reg' = reg
                  /\ ret' = [op |-> "it-=", failed |-> TRUE,
                             before |-> reg.index, returned |-> reg.index]
  /\ UNCHANGED <<argVars, mem, task, A, stack>>

SpecIterator ==
  InitIterator /\ [][\/ PreIncrement
                     \/ PostIncrement
                     \/ PreDecrement
                     \/ PostDecrement
                     \/ PlusAssign
                     \/ MinusAssign]_vars

\* C22 as claimed: for it at position k, it++ (k < last) returns an
\* iterator at k and leaves it at k + 1, it-- (k > first) returns an
\* iterator at k and leaves it at k - 1; ++it and --it leave it at k + 1
\* and k - 1.
IteratorPostfixStandard ==
  (pc = "done" /\ ~ret.failed) =>
    LET k == ret.before
    IN  /\ ret.op = "it++" => ret.returned = k /\ reg.index = k + 1
        /\ ret.op = "it--" => ret.returned = k /\ reg.index = k - 1
        /\ ret.op = "++it" => reg.index = k + 1
        /\ ret.op = "--it" => reg.index = k - 1

=============================================================================
